---------------------------- MODULE Spec2Model ----------------------------
(***************************************************************************)
(* A model of the adversarial specification verifier                       *)
(* (src/spec_verifier_enhanced.py): the structural extractor, the source   *)
(* document client and its cache, the deep analyzer, the battery of checks *)
(* run by verify(), the report generator and main()'s exit code.           *)
(*                                                                         *)
(* Texts are TLA+ strings and are processed character by character, as the *)
(* Python code does (substring tests, \w+ tokenisation, lower-casing).     *)
(* An Optional[T] value is a sequence of length 0 (None) or 1.             *)
(***************************************************************************)
EXTENDS Integers, Sequences, FiniteSets, TLC

(***************************************************************************)
(* Python str primitives                                                   *)
(***************************************************************************)
None == <<>>
Some(x) == <<x>>

\* LET v == e IN F(v), with e evaluated once whatever the uses of v
Bind(e, F(_)) == CHOOSE r \in {F(v) : v \in {e}} : TRUE

Min(a, b) == IF a <= b THEN a ELSE b
Max(a, b) == IF a >= b THEN a ELSE b

Ch(s, i) == SubSeq(s, i, i)
CharsOf(s) == {Ch(s, i) : i \in 1..Len(s)}

UPPER == "ABCDEFGHIJKLMNOPQRSTUVWXYZ"
LOWER == "abcdefghijklmnopqrstuvwxyz"
DIGITS == "0123456789"

UpperChars == CharsOf(UPPER)
LowerChars == CharsOf(LOWER)
DigitChars == CharsOf(DIGITS)
\* \w of the re module
WordChars == UpperChars \cup LowerChars \cup DigitChars \cup {"_"}
\* \s of the re module, and what str.strip() removes
SpaceChars == {" ", "\t", "\n", "\r"}

LowerCh(c) ==
    IF c \in UpperChars
    THEN Ch(LOWER, CHOOSE i \in 1..Len(UPPER) : Ch(UPPER, i) = c)
    ELSE c

\* str.lower()
RECURSIVE LowerStr(_)
LowerStr(str) ==
    Bind(str, LAMBDA s :
        IF s = "" THEN ""
        ELSE IF Len(s) = 1 THEN LowerCh(s)
        ELSE LET half == Len(s) \div 2
             IN  LowerStr(SubSeq(s, 1, half)) \o LowerStr(SubSeq(s, half + 1, Len(s))))

\* s[i-1:] for a 1-based i
From(s, i) == IF i > Len(s) THEN "" ELSE SubSeq(s, Max(i, 1), Len(s))
\* s[:n]
Prefix(s, n) == IF n <= 0 THEN "" ELSE SubSeq(s, 1, Min(n, Len(s)))
\* s[a:b] for 0-based a and b, both >= 0
Slice(s, a, b) == IF a >= Min(b, Len(s)) THEN "" ELSE SubSeq(s, a + 1, Min(b, Len(s)))

StartsWithAt(s, i, p) ==
    /\ i >= 1
    /\ i + Len(p) - 1 <= Len(s)
    /\ SubSeq(s, i, i + Len(p) - 1) = p

\* p in s
Contains(str, p) ==
    Bind(str, LAMBDA s : \E i \in 1..(Len(s) - Len(p) + 1) : StartsWithAt(s, i, p))

\* s.find(p), 0-based, -1 when absent
Find(str, p) ==
    Bind(str, LAMBDA s :
        IF Contains(s, p)
        THEN (CHOOSE i \in 1..(Len(s) - Len(p) + 1) :
                 /\ StartsWithAt(s, i, p)
                 /\ \A j \in 1..(i - 1) : ~StartsWithAt(s, j, p)) - 1
        ELSE -1)

\* any(k in s for k in ks), ks a sequence of strings
ContainsAny(str, ks) == Bind(str, LAMBDA s : \E k \in 1..Len(ks) : Contains(s, ks[k]))

\* The end of the maximal run of characters of class cls that starts at i.
RunEnd(s, from, cls) ==
    Bind(from, LAMBDA i :
        CHOOSE j \in i..Len(s) :
            /\ \A k \in i..j : Ch(s, k) \in cls
            /\ (j = Len(s) \/ Ch(s, j + 1) \notin cls))

\* The first position >= i that holds no whitespace (Len(s) + 1 when none).
SkipWs(s, i) ==
    IF i > Len(s) \/ Ch(s, i) \notin SpaceChars THEN i
    ELSE RunEnd(s, i, SpaceChars) + 1

\* str.strip()
Strip(str) ==
    Bind(str, LAMBDA s :
        Bind(SkipWs(s, 1), LAMBDA a :
            IF a > Len(s) THEN ""
            ELSE LET b == CHOOSE j \in a..Len(s) :
                              /\ Ch(s, j) \notin SpaceChars
                              /\ \A k \in (j + 1)..Len(s) : Ch(s, k) \in SpaceChars
                 IN  SubSeq(s, a, b)))

\* str.rstrip(chars)
RStrip(str, chars) ==
    Bind(str, LAMBDA s :
        IF \A k \in 1..Len(s) : Ch(s, k) \in chars THEN ""
        ELSE LET b == CHOOSE j \in 1..Len(s) :
                          /\ Ch(s, j) \notin chars
                          /\ \A k \in (j + 1)..Len(s) : Ch(s, k) \in chars
             IN  SubSeq(s, 1, b))

\* re.findall(r'\w+', s): the maximal runs of word characters, in order
RECURSIVE TokensFrom(_, _)
TokensFrom(s, i) ==
    Bind({p \in i..Len(s) : Ch(s, p) \in WordChars}, LAMBDA starts :
        IF starts = {} THEN <<>>
        ELSE Bind(CHOOSE p \in starts : \A q \in starts : p <= q, LAMBDA a :
                 Bind(RunEnd(s, a, WordChars), LAMBDA j :
                     <<SubSeq(s, a, j)>> \o TokensFrom(s, j + 1))))

Tokens(str) == Bind(str, LAMBDA s : TokensFrom(s, 1))

\* str.split(): the maximal runs of non-whitespace characters
RECURSIVE SplitFrom(_, _)
SplitFrom(s, i) ==
    Bind(SkipWs(s, i), LAMBDA a :
        IF a > Len(s) THEN <<>>
        ELSE Bind(RunEnd(s, a, CharsOf(s) \ SpaceChars), LAMBDA j :
                 <<SubSeq(s, a, j)>> \o SplitFrom(s, j + 1)))

Split(str) == Bind(str, LAMBDA s : SplitFrom(s, 1))

\* sep.join(parts)
RECURSIVE Join(_, _)
Join(sep, seq) ==
    Bind(seq, LAMBDA parts :
        IF parts = <<>> THEN ""
        ELSE IF Len(parts) = 1 THEN parts[1]
        ELSE parts[1] \o sep \o Join(sep, Tail(parts)))

Range(f) == {f[i] : i \in DOMAIN f}

\* seq[:n]
Take(seq, n) == SubSeq(seq, 1, Min(n, Len(seq)))

\* str.isupper(): some cased character, and no lower-case one
IsUpper(str) ==
    Bind(str, LAMBDA s :
        /\ \E i \in 1..Len(s) : Ch(s, i) \in UpperChars
        /\ \A i \in 1..Len(s) : Ch(s, i) \notin LowerChars)

(***************************************************************************)
(* The patterns of the structural extractor.  Every pattern is applied     *)
(* with re.search(..., re.IGNORECASE) to a stripped line and yields its    *)
(* group 1 (an Optional[str]).                                             *)
(***************************************************************************)
\* The part `\s*[-:]?\s*(.+)` of a keyword pattern, applied to what follows
\* the keyword: the greedy parts give back characters until (.+) holds at
\* least one.
TailCapture(rest) ==
    IF rest = "" THEN None
    ELSE LET a == SkipWs(rest, 1)
             b == IF a <= Len(rest) /\ Ch(rest, a) \in {"-", ":"} THEN a + 1 ELSE a
             c == SkipWs(rest, b)
         IN  Some(From(rest, Min(c, Len(rest))))

\* (?:k1|k2|...)\s*[-:]?\s*(.+): the leftmost position where an alternative
\* matches with a non-empty group, the alternatives tried in list order.
KeywordHits(line, lowered, kws) ==
    Bind(lowered, LAMBDA low :
        {<<i, k>> \in (1..Len(line)) \X (1..Len(kws)) :
            /\ StartsWithAt(low, i, kws[k])
            /\ TailCapture(From(line, i + Len(kws[k]))) # None})

KeywordCapture(line, kws) ==
    Bind(KeywordHits(line, LowerStr(line), kws), LAMBDA hits :
        IF hits = {} THEN None
        ELSE Bind(CHOOSE h \in hits :
                      \A g \in hits : h[1] < g[1] \/ (h[1] = g[1] /\ h[2] <= g[2]),
                  LAMBDA h : TailCapture(From(line, h[1] + Len(kws[h[2]])))))

\* The part `\s+(.+)` that follows a list marker ending right before q.
MarkerCapture(line, q) ==
    LET c == SkipWs(line, q)
    IN  IF c = q THEN None                       \* \s+ needs one character
        ELSE IF c <= Len(line) THEN Some(From(line, c))
        ELSE IF c - q >= 2 THEN Some(From(line, Len(line)))
        ELSE None

\* ^\s*[-*]\s+(.+)
BulletCapture(line) ==
    LET a == SkipWs(line, 1)
    IN  IF a <= Len(line) /\ Ch(line, a) \in {"-", "*"}
        THEN MarkerCapture(line, a + 1)
        ELSE None

\* ^\s*\d+\.\s+(.+)
NumberedCapture(line) ==
    LET a == SkipWs(line, 1)
    IN  IF a <= Len(line) /\ Ch(line, a) \in DigitChars
        THEN LET d == RunEnd(line, a, DigitChars)
             IN  IF d + 1 <= Len(line) /\ Ch(line, d + 1) = "."
                 THEN MarkerCapture(line, d + 2)
                 ELSE None
        ELSE None

\* ^#{1,6}\s+(.+)
HeadingCapture(line) ==
    IF line # "" /\ Ch(line, 1) = "#"
    THEN LET h == RunEnd(line, 1, {"#"})
         IN  IF h <= 6 THEN MarkerCapture(line, h + 1) ELSE None
    ELSE None

\* ^\s*[-*]\s+(.+(?:shall|must|should|required|necessary).+): the group
\* starts after as much whitespace as leaves a word of the list with a
\* character before it and a character after it.
ObligationWords == <<"shall", "must", "should", "required", "necessary">>

HasInnerWord(g) ==
    Bind(LowerStr(g), LAMBDA low :
        \E k \in 1..Len(ObligationWords) :
          \E i \in 2..(Len(low) - Len(ObligationWords[k])) :
              StartsWithAt(low, i, ObligationWords[k]))

ObligationBulletCapture(line) ==
    LET a == SkipWs(line, 1)
    IN  IF a <= Len(line) /\ Ch(line, a) \in {"-", "*"}
        THEN LET c == SkipWs(line, a + 1)
                 starts == {p \in (a + 2)..c : p <= Len(line) /\ HasInnerWord(From(line, p))}
             IN  IF starts = {} THEN None
                 ELSE Some(From(line, CHOOSE p \in starts : \A r \in starts : r <= p))
        ELSE None

\* (?:The system|The application|It)\s+(?:shall|must|should|needs? to)\s+(.+)
SubjectWords == <<"the system", "the application", "it">>
ModalWords == <<"shall", "must", "should", "needs to", "need to">>

SubjectHits(line, lowered) ==
    Bind(lowered, LAMBDA low :
        {<<i, s, m>> \in (1..Len(line)) \X (1..Len(SubjectWords)) \X (1..Len(ModalWords)) :
            /\ StartsWithAt(low, i, SubjectWords[s])
            /\ LET q == i + Len(SubjectWords[s])
                   c == SkipWs(line, q)
               IN  /\ c > q
                   /\ StartsWithAt(low, c, ModalWords[m])
                   /\ MarkerCapture(line, c + Len(ModalWords[m])) # None})

SubjectCapture(line) ==
    Bind(SubjectHits(line, LowerStr(line)), LAMBDA hits :
        IF hits = {} THEN None
        ELSE Bind(CHOOSE h \in hits :
                      \A g \in hits :
                          \/ h[1] < g[1]
                          \/ (h[1] = g[1] /\ h[2] < g[2])
                          \/ (h[1] = g[1] /\ h[2] = g[2] /\ h[3] <= g[3]),
                  LAMBDA h :
                      LET c == SkipWs(line, h[1] + Len(SubjectWords[h[2]]))
                      IN  MarkerCapture(line, c + Len(ModalWords[h[3]]))))

(***************************************************************************)
(* Source-reference markers [SRC:id], [SOURCE:id], [DOC:id]                *)
(***************************************************************************)
RefMarkers == <<"[SRC:", "[SOURCE:", "[DOC:">>

\* \[(?:SRC|SOURCE|DOC):([^\]]+)\] tried at position i of s, t being the text
\* the literals are compared with (s itself, or s lower-cased under
\* re.IGNORECASE): <<first position of the id, position of the closing "]">>
\* or <<0, 0>>.
RefMatchAt(s, t, i, ci) ==
    LET lit(k) == IF ci THEN LowerStr(RefMarkers[k]) ELSE RefMarkers[k]
    IN  Bind({k \in 1..Len(RefMarkers) : StartsWithAt(t, i, lit(k))}, LAMBDA ks :
            IF ks = {} THEN <<0, 0>>
            ELSE LET k == CHOOSE k \in ks : TRUE
                     b == i + Len(RefMarkers[k])
                 IN  Bind({j \in b..Len(s) : Ch(s, j) = "]"}, LAMBDA closes :
                         IF closes = {} THEN <<0, 0>>
                         ELSE LET j == CHOOSE j \in closes : \A r \in closes : j <= r
                              IN  IF j > b THEN <<b, j>> ELSE <<0, 0>>))

\* The leftmost position >= i where the pattern matches, 0 if there is none.
NextRef(s, t, i, ci) ==
    Bind({p \in i..Len(s) : RefMatchAt(s, t, p, ci)[1] > 0}, LAMBDA starts :
        IF starts = {} THEN 0 ELSE CHOOSE p \in starts : \A q \in starts : p <= q)

RECURSIVE RefsFrom(_, _, _)
RefsFrom(s, t, i) ==
    Bind(NextRef(s, t, i, TRUE), LAMBDA p :
        IF p = 0 THEN <<>>
        ELSE Bind(RefMatchAt(s, t, p, TRUE), LAMBDA m :
                 <<SubSeq(s, m[1], m[2] - 1)>> \o RefsFrom(s, t, m[2] + 1)))

\* re.findall(r'\[(?:SRC|SOURCE|DOC):([^\]]+)\]', text, re.IGNORECASE)
extract_source_refs(text) ==
    Bind(text, LAMBDA s : Bind(LowerStr(s), LAMBDA low : RefsFrom(s, low, 1)))

\* re.sub(r'\[(?:SRC|SOURCE|DOC):[^\]]+\]', '', text): no re.IGNORECASE here
RECURSIVE RemoveRefsFrom(_, _)
RemoveRefsFrom(s, i) ==
    Bind(NextRef(s, s, i, FALSE), LAMBDA p :
        IF p = 0 THEN From(s, i)
        ELSE Bind(RefMatchAt(s, s, p, FALSE), LAMBDA m :
                 (IF p > i THEN SubSeq(s, i, p - 1) ELSE "") \o RemoveRefsFrom(s, m[2] + 1)))

RemoveRefs(text) == Bind(text, LAMBDA s : RemoveRefsFrom(s, 1))

(***************************************************************************)
(* DocumentParser                                                          *)
(***************************************************************************)
\* tag_keywords, in the order of the dict
TagKeywords ==
    << <<"security", <<"security", "authentication", "authorization", "encrypt", "secure">> >>,
       <<"performance", <<"performance", "speed", "latency", "throughput", "optimize">> >>,
       <<"ui", <<"ui", "user interface", "display", "screen", "view">> >>,
       <<"api", <<"api", "endpoint", "rest", "service">> >>,
       <<"database", <<"database", "data", "storage", "persist", "store">> >>,
       <<"validation", <<"validate", "validation", "verify", "check">> >>,
       <<"error_handling", <<"error", "exception", "failure", "handle">> >>,
       <<"logging", <<"log", "logging", "audit", "track">> >> >>

_extract_tags(text) ==
    Bind(LowerStr(text), LAMBDA low :
        {TagKeywords[k][1] : k \in {k \in 1..Len(TagKeywords) : ContainsAny(low, TagKeywords[k][2])}})

\* "REQ_" + md5(text).hexdigest()[:8]: the digest is not computed; the text
\* itself stands for it (equal texts give equal ids, as with md5; the
\* collisions of the truncated digest are left out).
Md5Hex8(text) == text

TrailingPunctuation == {".", ";", ","}

req_patterns(line) ==
    << KeywordCapture(line, <<"req", "requirement", "shall", "must", "should", "needs", "need">>),
       SubjectCapture(line),
       ObligationBulletCapture(line),
       NumberedCapture(line) >>

principle_patterns(line) ==
    << KeywordCapture(line, <<"principle", "rule", "guideline", "constraint">>),
       BulletCapture(line),
       NumberedCapture(line) >>

spec_patterns(line) ==
    << KeywordCapture(line, <<"spec", "specification">>),
       BulletCapture(line),
       NumberedCapture(line),
       HeadingCapture(line) >>

\* The index of the first pattern with a match that satisfies ok, 0 if none.
FirstMatch(caps, ok(_)) ==
    Bind({k \in 1..Len(caps) : caps[k] # None /\ ok(caps[k][1])}, LAMBDA hits :
        IF hits = {} THEN 0 ELSE CHOOSE k \in hits : \A j \in hits : k <= j)

\* The body of extract_requirements' loop for one line: the Requirement it
\* yields, if any.
RequirementOfLine(line, line_num, source) ==
    Bind(Strip(line), LAMBDA line_stripped :
        IF line_stripped = "" \/ Len(line_stripped) < 10 THEN None
        ELSE Bind(req_patterns(line_stripped), LAMBDA caps :
            Bind(FirstMatch(caps, LAMBDA t : TRUE), LAMBDA k :
                IF k = 0 THEN None
                ELSE Bind(LET text == RStrip(Strip(caps[k][1]), TrailingPunctuation)
                          IN  Strip(RemoveRefs(text)),
                          LAMBDA clean_text :
                     Some([id |-> "REQ_" \o Md5Hex8(clean_text),
                           text |-> clean_text,
                           source |-> source,
                           line_number |-> line_num,
                           priority |-> IF ContainsAny(LowerStr(line), <<"must", "shall", "critical">>)
                                        THEN "HIGH" ELSE "NORMAL",
                           tags |-> _extract_tags(line_stripped),
                           source_doc_refs |-> extract_source_refs(line_stripped)])))))

RECURSIVE RequirementsFrom(_, _, _)
RequirementsFrom(lines, n, source) ==
    IF n > Len(lines) THEN <<>>
    ELSE RequirementOfLine(lines[n], n, source) \o RequirementsFrom(lines, n + 1, source)

\* A faulty variant of extract_requirements, which C15 must reject: the
\* digest is taken of the source label and the text.
extract_requirements_labelled(lines, source) ==
    Bind(RequirementsFrom(lines, 1, source), LAMBDA reqs :
        [i \in 1..Len(reqs) |->
            [reqs[i] EXCEPT !.id = "REQ_" \o Md5Hex8(source \o ":" \o reqs[i].text)]])

extract_requirements(lines, source) == RequirementsFrom(lines, 1, source)

\* extract_principles: a pattern whose captured text is shorter than 10
\* characters is passed over and the next pattern is tried.
RECURSIVE PrinciplesFrom(_, _, _)
PrinciplesFrom(lines, n, current_category) ==
    IF n > Len(lines) THEN <<>>
    ELSE Bind(Strip(lines[n]), LAMBDA line :
             IF line = "" THEN PrinciplesFrom(lines, n + 1, current_category)
             ELSE IF IsUpper(line) /\ Len(Split(line)) <= 5
                  THEN PrinciplesFrom(lines, n + 1, line)
             ELSE LET text(c) == RStrip(Strip(c), TrailingPunctuation)
                      item == Bind(principle_patterns(line), LAMBDA caps :
                                Bind(FirstMatch(caps, LAMBDA c : Len(text(c)) >= 10), LAMBDA k :
                                  IF k = 0 THEN None
                                  ELSE Bind(text(caps[k][1]), LAMBDA found :
                                         Some([id |-> "PRIN_" \o Md5Hex8(found),
                                               text |-> found,
                                               category |-> current_category,
                                               mandatory |-> ContainsAny(LowerStr(line),
                                                                <<"must", "shall", "required", "mandatory">>),
                                               line_number |-> n]))))
                  IN  item \o PrinciplesFrom(lines, n + 1, current_category))

extract_principles(lines) == PrinciplesFrom(lines, 1, "GENERAL")

\* The field addresses_requirements (the REQ_ ids a line mentions) is left
\* out: no check reads it.
SpecificationOfLine(raw, line_num) ==
    Bind(Strip(raw), LAMBDA line :
        IF line = "" \/ Len(line) < 10 THEN None
        ELSE Bind(spec_patterns(line), LAMBDA caps :
            Bind(FirstMatch(caps, LAMBDA t : TRUE), LAMBDA k :
                IF k = 0 THEN None
                ELSE Bind(RStrip(Strip(caps[k][1]), TrailingPunctuation), LAMBDA text :
                     Some([id |-> "SPEC_" \o Md5Hex8(text),
                           text |-> text,
                           line_number |-> line_num,
                           tags |-> _extract_tags(line)])))))

RECURSIVE SpecificationsFrom(_, _)
SpecificationsFrom(lines, n) ==
    IF n > Len(lines) THEN <<>>
    ELSE SpecificationOfLine(lines[n], n) \o SpecificationsFrom(lines, n + 1)

extract_specifications(lines) == SpecificationsFrom(lines, 1)

(***************************************************************************)
(* State                                                                   *)
(***************************************************************************)
VARIABLES
    args,                  \* main(): the parsed command line
    fs,                    \* the file system: path -> [kind, lines]
    svc,                   \* the document service: doc id -> its response
    seed,                  \* the hash seed of the running interpreter
    pc,                    \* main()'s position
    exit_code,             \* Optional: the code passed to sys.exit
    output,                \* Optional: what main() printed as its report
    api_client,            \* SourceDocumentAPI: enabled, base_url, max_retries, cache
    enable_deep_analysis,  \* SpecificationVerifier.enable_deep_analysis
    requirements,          \* SpecificationVerifier.requirements
    principles,            \* SpecificationVerifier.principles
    specifications,        \* SpecificationVerifier.specifications
    violations,            \* SpecificationVerifier.violations (the accumulator)
    net,                   \* the URLs requested over the network so far
    ret,                   \* the latest call of the client: arguments and result
    prev,                  \* Optional: what the preceding run of main() produced
    shopping_cart,         \* cart-service: the shopping_cart table, cart_key -> row
    product_inventory,     \* checkout-service: the product_inventory table, asin -> quantity
    orders,                \* checkout-service: the orders table, a set of rows
    checkouts,             \* the checkout requests: request -> its position and locals
    cart_reply,            \* the latest call of the cart service and its response
    gateway,               \* api-gateway: the requests handled, each with its response
    stock                  \* checkout-service: product_inventory before the first request

\* The state of the verifier and the state of the shop services
verifier == <<args, fs, svc, seed, pc, exit_code, output, api_client, enable_deep_analysis,
              requirements, principles, specifications, violations, net, ret, prev>>
shop == <<shopping_cart, product_inventory, orders, checkouts, cart_reply, gateway, stock>>

vars == <<args, fs, svc, seed, pc, exit_code, output, api_client, enable_deep_analysis,
          requirements, principles, specifications, violations, net, ret, prev,
          shopping_cart, product_inventory, orders, checkouts, cart_reply, gateway, stock>>

\* No shop service is running: empty tables, no request.
ShopClosed ==
    /\ shopping_cart = <<>>
    /\ product_inventory = <<>>
    /\ orders = {}
    /\ checkouts = <<>>
    /\ cart_reply = <<>>
    /\ gateway = <<>>
    /\ stock = <<>>

(***************************************************************************)
(* Iteration order of a Python set of str.  It depends on the interpreter's *)
(* hash seed, which differs from run to run (hash randomisation), and is    *)
(* fixed within one run.  A seed selects a rotation of the elements in      *)
(* order of insertion, reversed for an odd seed.                            *)
(***************************************************************************)
RECURSIVE Dedup(_)
Dedup(items) ==
    Bind(items, LAMBDA seq :
        IF seq = <<>> THEN <<>>
        ELSE Bind(Dedup(SubSeq(seq, 1, Len(seq) - 1)), LAMBDA init :
                 LET last == seq[Len(seq)]
                 IN  IF last \in Range(init) THEN init ELSE Append(init, last)))

Reverse(items) == Bind(items, LAMBDA seq : [i \in 1..Len(seq) |-> seq[Len(seq) + 1 - i]])

Rotate(items, k) ==
    Bind(items, LAMBDA seq :
        IF seq = <<>> THEN <<>>
        ELSE [i \in 1..Len(seq) |-> seq[((i - 1 + k) % Len(seq)) + 1]])

\* list(set(items)) under hash seed sd
SetOrder(items, sd) ==
    Bind(Rotate(Dedup(items), sd \div 2), LAMBDA base :
        IF sd % 2 = 1 THEN Reverse(base) ELSE base)

\* {w for w in set(re.findall(r'\w+', text.lower())) if len(w) > n}, as the
\* sequence of first occurrences
Keywords(text, n) == SelectSeq(Dedup(Tokens(LowerStr(text))), LAMBDA w : Len(w) > n)

(***************************************************************************)
(* SourceDocumentAPI                                                       *)
(***************************************************************************)
\* urllib.request.Request(url) raises ValueError("unknown url type") unless
\* the URL starts with a scheme: one or more characters other than "/" and
\* ":", followed by ":".
HasScheme(url) ==
    \E i \in 2..Len(url) :
        /\ Ch(url, i) = ":"
        /\ \A j \in 1..(i - 1) : Ch(url, j) \notin {"/", ":"}

\* The service's answer for a document id; an id it does not know is a 404.
NotFound == [kind |-> "http_error", code |-> 404, data |-> None]
Respond(doc_id) == IF doc_id \in DOMAIN svc THEN svc[doc_id] ELSE NotFound

\* data.get(key, default) on the decoded payload
Get(opt, default) == IF opt = None THEN default ELSE opt[1]

\* The SourceDocument built from a decoded payload.
DocumentOf(doc_id, doc_type, url, data) ==
    [doc_id |-> doc_id,
     doc_type |-> Get(data.type, doc_type),
     url |-> url,
     title |-> Get(data.title, "Document " \o doc_id),
     date |-> data.date,
     participants |-> Get(data.participants, <<>>),
     content |-> Get(data.content, ""),
     fetched |-> TRUE]

\* A faulty variant of request_document, which C6 must reject: a request
\* that fails is sent a second time.
request_document_retrying(client, doc_id) ==
    Bind(client, LAMBDA cs :
        LET url == api_client.base_url \o "/documents/" \o doc_id
            resp == Respond(doc_id)
            sent == [cs EXCEPT !.net = Append(@, url)]
            doc == DocumentOf(doc_id, "unknown", url, resp.data[1])
        IN  IF ~HasScheme(url) THEN [cs |-> cs, result |-> None]
            ELSE IF resp.kind = "ok"
            THEN [cs |-> [sent EXCEPT !.cache = (doc_id :> doc) @@ @], result |-> Some(doc)]
            ELSE [cs |-> [sent EXCEPT !.net = Append(@, url)], result |-> None])

\* The try block of fetch_document on the client state cs = [cache, net,
\* ret]: the request is built (ValueError for a URL without a scheme, before
\* anything is sent), sent once, and its answer decoded and cached.  Each
\* except clause returns None.
request_document(client, doc_id) ==
    Bind(client, LAMBDA cs :
        LET url == api_client.base_url \o "/documents/" \o doc_id
            resp == Respond(doc_id)
            sent == [cs EXCEPT !.net = Append(@, url)]
            doc == DocumentOf(doc_id, "unknown", url, resp.data[1])
        IN  IF ~HasScheme(url) THEN [cs |-> cs, result |-> None]        \* except Exception
            ELSE CASE resp.kind = "ok" ->
                        [cs |-> [sent EXCEPT !.cache = (doc_id :> doc) @@ @],
                         result |-> Some(doc)]
                   [] resp.kind = "http_error" -> [cs |-> sent, result |-> None]
                   [] resp.kind = "url_error" -> [cs |-> sent, result |-> None]
                   [] OTHER -> [cs |-> sent, result |-> None])           \* except Exception

\* A faulty variant of fetch_document, which C5 must reject: the cache is
\* not consulted, every call goes to the service.
fetch_document_uncached(client, doc_id) ==
    Bind(client, LAMBDA cs :
        IF ~api_client.enabled THEN [cs |-> cs, result |-> None]
        ELSE request_document(cs, doc_id))

\* fetch_document: the new client state and the Optional[SourceDocument]
\* returned.
fetch_document(client, doc_id) ==
    Bind(client, LAMBDA cs :
        IF ~api_client.enabled THEN [cs |-> cs, result |-> None]
        ELSE IF doc_id \in DOMAIN cs.cache
        THEN [cs |-> cs, result |-> Some(cs.cache[doc_id])]
        ELSE request_document(cs, doc_id))

\* A faulty variant of FetchEach, which C7 must reject: the loop ends at the
\* first document that cannot be fetched.
RECURSIVE FetchUntilFailure(_, _, _, _)
FetchUntilFailure(cs, doc_ids, n, documents) ==
    IF n > Len(doc_ids) THEN [cs |-> cs, documents |-> documents]
    ELSE Bind(fetch_document(cs, doc_ids[n]), LAMBDA f :
             IF f.result = None THEN [cs |-> f.cs, documents |-> documents]
             ELSE FetchUntilFailure(f.cs, doc_ids, n + 1, documents \o f.result))

\* The loop of fetch_multiple over doc_ids[n..]: documents collects the
\* fetched ones.
RECURSIVE FetchEach(_, _, _, _)
FetchEach(cs, doc_ids, n, documents) ==
    IF n > Len(doc_ids) THEN [cs |-> cs, documents |-> documents]
    ELSE Bind(fetch_document(cs, doc_ids[n]), LAMBDA f :
             FetchEach(f.cs, doc_ids, n + 1, documents \o f.result))

fetch_multiple(cs, ids) ==
    Bind(ids, LAMBDA doc_ids :
        Bind(FetchEach(cs, doc_ids, 1, <<>>), LAMBDA r :
            [cs |-> [r.cs EXCEPT !.ret = [op |-> "fetch_multiple", doc_ids |-> doc_ids,
                                          result |-> r.documents,
                                          cache_before |-> cs.cache,
                                          net_before |-> cs.net]],
             documents |-> r.documents]))

(***************************************************************************)
(* DeepAnalyzer.  Each analysis returns the new client state, the fetched  *)
(* documents and the analysis text.                                        *)
(***************************************************************************)
\* s.replace('\n', ' ')
RECURSIVE ReplaceNewlines(_)
ReplaceNewlines(str) ==
    Bind(str, LAMBDA s :
        IF s = "" THEN ""
        ELSE IF Len(s) = 1 THEN (IF s = "\n" THEN " " ELSE s)
        ELSE LET half == Len(s) \div 2
             IN  ReplaceNewlines(SubSeq(s, 1, half))
                 \o ReplaceNewlines(SubSeq(s, half + 1, Len(s))))

\* [f(x) for x in seq if p(x)]
MapIf(seq, p(_), f(_)) ==
    Bind(SelectSeq(seq, p), LAMBDA sel : [i \in 1..Len(sel) |-> f(sel[i])])

\* concatenation of f(x) for x in seq
FlatMap(items, f(_)) ==
    Bind(items, LAMBDA seq :
        LET F[i \in 0..Len(seq)] == IF i = 0 THEN <<>> ELSE F[i - 1] \o f(seq[i])
        IN  F[Len(seq)])

\* The context of keyword's first occurrence in the document body.
KeywordContext(doc, keyword) ==
    Bind(Find(LowerStr(doc.content), keyword), LAMBDA idx :
        LET start == Max(0, idx - 50)
            end == Min(Len(doc.content), idx + 100)
        IN  "'" \o keyword \o "': ..." \o ReplaceNewlines(Slice(doc.content, start, end))
            \o "...")

\* The lines analyze_missing_requirement adds for one fetched document.
MissingRequirementLines(requirement, doc) ==
    IF doc.content = "" THEN <<>>
    ELSE Bind(SetOrder(Keywords(requirement.text, 3), seed), LAMBDA req_keywords :
         Bind(LowerStr(doc.content), LAMBDA doc_lower :
         Bind(MapIf(Take(req_keywords, 5),
                    LAMBDA keyword : Contains(doc_lower, keyword),
                    LAMBDA keyword : KeywordContext(doc, keyword)), LAMBDA matches :
             IF matches # <<>>
             THEN <<"  In " \o doc.title \o " (" \o doc.doc_type \o "):">>
                  \o [i \in 1..Min(2, Len(matches)) |-> "    - " \o matches[i]]
             ELSE <<"  In " \o doc.title \o ": No direct mentions found">>)))

analyze_missing_requirement(cs, requirement) ==
    IF requirement.source_doc_refs = <<>>
    THEN [cs |-> cs, docs |-> <<>>,
          analysis |-> "No source documents referenced for deeper analysis"]
    ELSE Bind(fetch_multiple(cs, requirement.source_doc_refs), LAMBDA f :
             LET source_docs == f.documents
             IN  IF source_docs = <<>>
                 THEN [cs |-> f.cs, docs |-> <<>>,
                       analysis |-> "Could not fetch source documents"]
                 ELSE [cs |-> f.cs, docs |-> source_docs,
                       analysis |-> Join("\n",
                           <<"Analyzed " \o ToString(Len(source_docs)) \o " source document(s):">>
                           \o FlatMap(source_docs,
                                      LAMBDA doc : MissingRequirementLines(requirement, doc)))])

PrincipleLines(principle, doc) ==
    IF doc.content = "" THEN <<>>
    ELSE Bind(SetOrder(Keywords(principle.text, 4), seed), LAMBDA principle_keywords :
         Bind(LowerStr(doc.content), LAMBDA doc_lower :
             LET relevant_found == \E i \in 1..Min(3, Len(principle_keywords)) :
                                       Contains(doc_lower, principle_keywords[i])
             IN  IF relevant_found
                 THEN <<"  " \o doc.title \o " mentions related concepts">>
                 ELSE <<"  " \o doc.title \o " does not discuss this principle">>))

analyze_principle_violation(cs, principle, spec_item, related_reqs) ==
    Bind(FlatMap(related_reqs, LAMBDA req : req.source_doc_refs), LAMBDA source_doc_ids :
        IF source_doc_ids = <<>>
        THEN [cs |-> cs, docs |-> <<>>,
              analysis |-> "No source documents available for analysis"]
        ELSE Bind(fetch_multiple(cs, SetOrder(source_doc_ids, seed)), LAMBDA f :
             LET source_docs == f.documents
             IN  IF source_docs = <<>>
                 THEN [cs |-> f.cs, docs |-> <<>>,
                       analysis |-> "Could not fetch source documents"]
                 ELSE [cs |-> f.cs, docs |-> source_docs,
                       analysis |-> Join("\n",
                           <<"Checking if source documents justify this violation:">>
                           \o FlatMap(source_docs,
                                      LAMBDA doc : PrincipleLines(principle, doc)))]))

analyze_ambiguity(cs, spec_item, reqs) ==
    Bind(Range(Keywords(spec_item.text, 3)), LAMBDA spec_keywords :
    Bind(SelectSeq(reqs, LAMBDA req :
             Cardinality(spec_keywords \cap Range(Tokens(LowerStr(req.text)))) >= 2),
         LAMBDA related_reqs :
    Bind(FlatMap(related_reqs, LAMBDA req : req.source_doc_refs), LAMBDA source_doc_ids :
        IF source_doc_ids = <<>>
        THEN [cs |-> cs, docs |-> <<>>,
              analysis |-> "No source documents to clarify this ambiguity"]
        ELSE Bind(fetch_multiple(cs, SetOrder(source_doc_ids, seed)), LAMBDA f :
             LET source_docs == f.documents
             IN  [cs |-> f.cs, docs |-> source_docs,
                  analysis |-> Join("\n",
                      <<"Searched source documents for clarification:">>
                      \o MapIf(source_docs,
                               LAMBDA doc : doc.content # "",
                               LAMBDA doc : "  " \o doc.title \o " (" \o doc.doc_type \o ") - "
                                            \o ToString(Len(doc.content))
                                            \o " chars analyzed"))]))))

(***************************************************************************)
(* SpecificationVerifier: the checks.  A check is an operator of the client *)
(* state, the loaded collections and (where it matters) the flag            *)
(* enable_deep_analysis; it returns the new client state and the Violations *)
(* it appends to the accumulator, in order.                                 *)
(***************************************************************************)
Violation(severity, category, title, description, evidence, line_numbers,
          related_requirements, source_documents, deep_analysis) ==
    [severity |-> severity, category |-> category, title |-> title,
     description |-> description, evidence |-> evidence,
     line_numbers |-> line_numbers, related_requirements |-> related_requirements,
     source_documents |-> source_documents, deep_analysis |-> deep_analysis]

\* A faulty variant of JoinedText, which C9 must reject: the texts are
\* joined as written, not in lower case.
JoinedTextCased(seq) ==
    Bind(seq, LAMBDA items : Join(" ", [i \in 1..Len(items) |-> items[i].text]))

\* " ".join([x.text.lower() for x in items])
JoinedText(seq) ==
    Bind(seq, LAMBDA items : Join(" ", [i \in 1..Len(items) |-> LowerStr(items[i].text)]))

\* sum(1 for keyword in keywords if keyword in text)
Matches(keywords, str) ==
    Bind(str, LAMBDA text : Cardinality({k \in keywords : Contains(text, k)}))

\* coverage = matches / len(req_keywords) if req_keywords else 0, as a
\* fraction num/den with den > 0
Coverage(words, text) ==
    Bind(words, LAMBDA keywords :
        IF keywords # {}
        THEN [num |-> Matches(keywords, text), den |-> Cardinality(keywords)]
        ELSE [num |-> 0, den |-> 1])

\* A faulty variant of IsUncovered, which C12 must reject: a requirement
\* with less than half of its keywords found counts as uncovered.
IsUncoveredBelowHalf(req, spec_text) ==
    Bind(Range(Keywords(req.text, 3)), LAMBDA req_keywords :
        /\ req_keywords # {}
        /\ 2 * Coverage(req_keywords, spec_text).num < Coverage(req_keywords, spec_text).den)

\* coverage == 0
IsUncovered(req, spec_text) ==
    Bind(Range(Keywords(req.text, 3)), LAMBDA req_keywords :
        /\ req_keywords # {}
        /\ Coverage(req_keywords, spec_text).num = 0)

\* A faulty variant of IsPartiallyCovered, which C10 must reject: a coverage
\* of exactly one half counts as partial.
IsPartiallyCoveredInclusive(req, spec_text) ==
    Bind(Range(Keywords(req.text, 3)), LAMBDA req_keywords :
    Bind(Coverage(req_keywords, spec_text), LAMBDA coverage :
        /\ req_keywords # {}
        /\ coverage.num # 0
        /\ 2 * coverage.num <= coverage.den))

\* elif coverage < 0.5
IsPartiallyCovered(req, spec_text) ==
    Bind(Range(Keywords(req.text, 3)), LAMBDA req_keywords :
    Bind(Coverage(req_keywords, spec_text), LAMBDA coverage :
        /\ req_keywords # {}
        /\ coverage.num # 0
        /\ 2 * coverage.num < coverage.den))

RequirementEvidence(r) ==
    r.id \o " [" \o r.source \o "]: " \o Prefix(r.text, 100) \o "..."

\* One pass of the loop "for req in uncovered[:3]": acc holds the client
\* state, the documents and the analysis text collected so far.
AnalyzeUncovered(acc, req) ==
    IF req.source_doc_refs = <<>> THEN acc
    ELSE Bind(analyze_missing_requirement(acc.cs, req), LAMBDA r :
              [cs |-> r.cs,
               docs |-> acc.docs \o r.docs,
               deep |-> IF r.analysis # "" /\ (acc.deep = None \/ acc.deep = Some(""))
                        THEN Some(r.analysis)
                        ELSE IF r.analysis # ""
                        THEN Some(acc.deep[1] \o "\n" \o r.analysis)
                        ELSE acc.deep])

RECURSIVE DeepCoverageFrom(_, _, _)
DeepCoverageFrom(acc, top, i) ==
    IF i > Len(top) THEN acc
    ELSE Bind(AnalyzeUncovered(acc, top[i]), LAMBDA next : DeepCoverageFrom(next, top, i + 1))

\* The deep analysis of the first three uncovered requirements
DeepCoverage(cs, uncovered) ==
    DeepCoverageFrom([cs |-> cs, docs |-> <<>>, deep |-> None], Take(uncovered, 3), 1)

UncoveredViolation(uncovered, d) ==
    Violation("CRITICAL", "COVERAGE",
              ToString(Len(uncovered)) \o " requirements have NO coverage in specification",
              "The following requirements are completely missing from the specification:",
              [i \in 1..Min(5, Len(uncovered)) |-> RequirementEvidence(uncovered[i])],
              <<>>,
              [i \in 1..Len(uncovered) |-> uncovered[i].id],
              d.docs, d.deep)

\* A faulty variant of PartialViolation, which C28 must reject: the
\* violation carries an analysis.
PartialViolationAnalysed(partially_covered) ==
    Violation("HIGH", "COVERAGE",
              ToString(Len(partially_covered)) \o " requirements have PARTIAL coverage",
              "These requirements are only partially addressed:",
              [i \in 1..Min(5, Len(partially_covered)) |->
                  RequirementEvidence(partially_covered[i])],
              <<>>, <<>>, <<>>, Some("No source documents referenced for deeper analysis"))

PartialViolation(partially_covered) ==
    Violation("HIGH", "COVERAGE",
              ToString(Len(partially_covered)) \o " requirements have PARTIAL coverage",
              "These requirements are only partially addressed:",
              [i \in 1..Min(5, Len(partially_covered)) |->
                  RequirementEvidence(partially_covered[i])],
              <<>>, <<>>, <<>>, None)

check_requirement_coverage(cs, reqs, specs, deep) ==
    Bind(JoinedText(specs), LAMBDA spec_text :
    Bind(SelectSeq(reqs, LAMBDA req : IsUncovered(req, spec_text)), LAMBDA uncovered :
    Bind(SelectSeq(reqs, LAMBDA req : IsPartiallyCovered(req, spec_text)),
         LAMBDA partially_covered :
    Bind(IF deep /\ uncovered # <<>> THEN DeepCoverage(cs, uncovered)
         ELSE [cs |-> cs, docs |-> <<>>, deep |-> None], LAMBDA d :
         [cs |-> d.cs,
          new |-> (IF uncovered # <<>> THEN <<UncoveredViolation(uncovered, d)>> ELSE <<>>)
                  \o (IF partially_covered # <<>>
                      THEN <<PartialViolation(partially_covered)>> ELSE <<>>)]))))

\* A faulty variant of IsOrphaned, which C11 must reject: an item none of
\* whose keywords is found is taken as having nothing to compare.
IsOrphanedPositive(spec, req_text) ==
    Bind(Range(Keywords(spec.text, 3)), LAMBDA spec_keywords :
    Bind(Coverage(spec_keywords, req_text), LAMBDA coverage :
        /\ spec_keywords # {}
        /\ coverage.num > 0
        /\ 10 * coverage.num < 3 * coverage.den))

\* if coverage < 0.3
IsOrphaned(spec, req_text) ==
    Bind(Range(Keywords(spec.text, 3)), LAMBDA spec_keywords :
    Bind(Coverage(spec_keywords, req_text), LAMBDA coverage :
        /\ spec_keywords # {}
        /\ 10 * coverage.num < 3 * coverage.den))

check_orphaned_specifications(cs, reqs, specs) ==
    Bind(JoinedText(reqs), LAMBDA req_text :
    Bind(SelectSeq(specs, LAMBDA spec : IsOrphaned(spec, req_text)), LAMBDA orphaned :
        [cs |-> cs,
         new |-> IF orphaned # <<>>
                 THEN <<Violation("HIGH", "SCOPE_CREEP",
                          ToString(Len(orphaned)) \o " specification items appear to be out of scope",
                          "These specifications don't clearly relate to any input requirements:",
                          [i \in 1..Min(5, Len(orphaned)) |->
                              orphaned[i].id \o " (line " \o ToString(orphaned[i].line_number)
                              \o "): " \o Prefix(orphaned[i].text, 100) \o "..."],
                          [i \in 1..Len(orphaned) |-> orphaned[i].line_number],
                          <<>>, <<>>, None)>>
                 ELSE <<>>]))

StopWords ==
    {"the", "a", "an", "is", "are", "was", "were", "be", "been",
     "have", "has", "had", "do", "does", "did", "will", "would",
     "shall", "should", "must", "may", "can", "could", "not"}

\* _extract_key_terms: a list, repetitions kept
_extract_key_terms(text) ==
    SelectSeq(Tokens(LowerStr(text)), LAMBDA w : Len(w) > 3 /\ w \notin StopWords)

ProhibitionPhrases == <<"must not", "shall not", "cannot", "prohibited">>
ObligationPhrases == <<"must", "shall", "required">>

\* The entries one principle adds to violations_found.
PrincipleFindings(principle, specs) ==
    IF ~principle.mandatory THEN <<>>
    ELSE Bind(LowerStr(principle.text), LAMBDA principle_lower :
         Bind(_extract_key_terms(principle.text), LAMBDA terms :
             IF ContainsAny(principle_lower, ProhibitionPhrases)
             THEN FlatMap(specs, LAMBDA spec :
                      Bind(LowerStr(spec.text), LAMBDA spec_lower :
                          MapIf(terms,
                                LAMBDA term : Contains(spec_lower, LowerStr(term)),
                                LAMBDA term : [principle |-> principle, spec |-> Some(spec),
                                               issue |-> term])))
             ELSE IF ContainsAny(principle_lower, ObligationPhrases)
             THEN Bind(JoinedText(specs), LAMBDA spec_text :
                      IF \E i \in 1..Len(terms) : Contains(spec_text, LowerStr(terms[i]))
                      THEN <<>>
                      ELSE <<[principle |-> principle, spec |-> None,
                              issue |-> "Not addressed"]>>)
             ELSE <<>>))

PrincipleEvidence(v) ==
    IF v.spec # None
    THEN "Principle '" \o Prefix(v.principle.text, 60) \o "...' violated by spec at line "
         \o ToString(v.spec[1].line_number)
    ELSE "Principle '" \o Prefix(v.principle.text, 60) \o "...' not addressed in specification"

check_principle_violations(cs, reqs, prins, specs, deep) ==
    Bind(FlatMap(prins, LAMBDA principle : PrincipleFindings(principle, specs)),
         LAMBDA violations_found :
    LET first == violations_found[1]
        related_reqs == Take(SelectSeq(reqs, LAMBDA r : r.tags \cap first.spec[1].tags # {}), 3)
    IN
    Bind(/\ deep
         /\ violations_found # <<>>
         /\ first.spec # None
         /\ \E i \in 1..Len(related_reqs) : related_reqs[i].source_doc_refs # <<>>,
         LAMBDA analysed :
    Bind(IF analysed
         THEN analyze_principle_violation(cs, first.principle, first.spec[1], related_reqs)
         ELSE [cs |-> cs, docs |-> <<>>, analysis |-> ""], LAMBDA d :
        [cs |-> d.cs,
         new |-> IF violations_found # <<>>
                 THEN <<Violation("CRITICAL", "PRINCIPLE_VIOLATION",
                          ToString(Len(violations_found)) \o " principle violations detected",
                          "Mandatory principles have been violated or ignored:",
                          [i \in 1..Min(5, Len(violations_found)) |->
                              PrincipleEvidence(violations_found[i])],
                          <<>>, <<>>,
                          d.docs,
                          IF analysed THEN Some(d.analysis) ELSE None)>>
                 ELSE <<>>])))

ambiguous_indicators ==
    <<"appropriate", "reasonable", "adequate", "sufficient",
      "as needed", "if possible", "etc", "and so on",
      "various", "several", "some", "many", "few",
      "fast", "slow", "good", "bad", "efficient",
      "might", "may", "could", "possibly", "probably",
      "tbd", "todo", "to be determined", "to be decided">>

found_indicators(spec) ==
    Bind(LowerStr(spec.text), LAMBDA low :
        SelectSeq(ambiguous_indicators, LAMBDA ind : Contains(low, ind)))

check_ambiguity(cs, reqs, specs, deep) ==
    Bind(SelectSeq(specs, LAMBDA spec : found_indicators(spec) # <<>>),
         LAMBDA ambiguous_specs :
    Bind(IF deep /\ ambiguous_specs # <<>>
         THEN analyze_ambiguity(cs, ambiguous_specs[1], reqs)
         ELSE [cs |-> cs, docs |-> <<>>, analysis |-> ""], LAMBDA d :
        [cs |-> d.cs,
         new |-> IF ambiguous_specs # <<>>
                 THEN <<Violation("MEDIUM", "AMBIGUITY",
                          ToString(Len(ambiguous_specs)) \o " ambiguous specifications detected",
                          "These specifications contain vague or ambiguous language:",
                          [i \in 1..Min(5, Len(ambiguous_specs)) |->
                              "Line " \o ToString(ambiguous_specs[i].line_number) \o ": '"
                              \o Prefix(ambiguous_specs[i].text, 80) \o "...' (contains: "
                              \o Join(", ", found_indicators(ambiguous_specs[i])) \o ")"],
                          [i \in 1..Len(ambiguous_specs) |-> ambiguous_specs[i].line_number],
                          <<>>,
                          d.docs,
                          IF d.docs # <<>> THEN Some(d.analysis) ELSE None)>>
                 ELSE <<>>]))

negations == <<"not", "no", "never", "without", "cannot", "must not", "shall not">>

\* A faulty variant of _are_contradictory, which C25 must reject: two
\* shared key terms suffice.
_are_contradictory_on_two(text1, text2) ==
    Bind(Range(_extract_key_terms(text1)) \cap Range(_extract_key_terms(text2)),
         LAMBDA overlap :
        /\ Cardinality(overlap) >= 2
        /\ ContainsAny(LowerStr(text1), negations) # ContainsAny(LowerStr(text2), negations))

_are_contradictory(text1, text2) ==
    Bind(Range(_extract_key_terms(text1)) \cap Range(_extract_key_terms(text2)),
         LAMBDA overlap :
        LET has_negation1 == ContainsAny(LowerStr(text1), negations)
            has_negation2 == ContainsAny(LowerStr(text2), negations)
        IN  IF Cardinality(overlap) < 2 THEN FALSE
            ELSE has_negation1 # has_negation2 /\ Cardinality(overlap) >= 3)

\* The pairs (spec1, spec2) with spec1 before spec2, in the order of the
\* nested loops.
ContradictionPairs(items) ==
    Bind(items, LAMBDA specs :
        FlatMap([i \in 1..Len(specs) |-> i], LAMBDA i :
            MapIf([k \in 1..(Len(specs) - i) |-> i + k],
                  LAMBDA j : _are_contradictory(specs[i].text, specs[j].text),
                  LAMBDA j : <<specs[i], specs[j]>>)))

check_contradictions(cs, specs) ==
    Bind(ContradictionPairs(specs), LAMBDA contradictions :
        [cs |-> cs,
         new |-> IF contradictions # <<>>
                 THEN <<Violation("CRITICAL", "CONTRADICTION",
                          ToString(Len(contradictions)) \o " potential contradictions found",
                          "These specification pairs may contradict each other:",
                          [i \in 1..Min(3, Len(contradictions)) |->
                              "Line " \o ToString(contradictions[i][1].line_number)
                              \o " vs Line " \o ToString(contradictions[i][2].line_number)
                              \o ": '" \o Prefix(contradictions[i][1].text, 60)
                              \o "...' contradicts '" \o Prefix(contradictions[i][2].text, 60)
                              \o "...'"],
                          FlatMap(contradictions, LAMBDA pair :
                              <<pair[1].line_number, pair[2].line_number>>),
                          <<>>, <<>>, None)>>
                 ELSE <<>>])

aspects ==
    << <<"security", <<"security", "authentication", "authorization", "encrypt">> >>,
       <<"error_handling", <<"error", "exception", "failure", "handle">> >>,
       <<"performance", <<"performance", "speed", "latency", "scale">> >>,
       <<"validation", <<"validate", "validation", "verify", "check">> >>,
       <<"logging", <<"log", "audit", "track", "monitor">> >> >>

check_completeness(cs, reqs, specs) ==
    Bind(JoinedText(specs), LAMBDA spec_text :
    Bind(JoinedText(reqs), LAMBDA req_text :
    Bind(MapIf(aspects,
               LAMBDA a : /\ ~ContainsAny(spec_text, a[2])
                          /\ ContainsAny(req_text, a[2]),
               LAMBDA a : a[1]), LAMBDA missing_aspects :
        [cs |-> cs,
         new |-> IF missing_aspects # <<>>
                 THEN <<Violation("HIGH", "COMPLETENESS",
                          "Missing " \o ToString(Len(missing_aspects)) \o " important aspects",
                          "Requirements mention these aspects, but specification doesn't address them:",
                          missing_aspects, <<>>, <<>>, <<>>, None)>>
                 ELSE <<>>])))

\* A faulty variant of check_scope_creep, which C27 must reject: it
\* reports the specification items once more.
check_scope_creep_reporting(cs) ==
    [cs |-> cs,
     new |-> IF specifications = <<>> THEN <<>>
             ELSE <<Violation("HIGH", "SCOPE_CREEP",
                              ToString(Len(specifications)) \o " items may be out of scope",
                              "", <<>>, <<>>, <<>>, <<>>, None)>>]

\* check_scope_creep only prints a heading
check_scope_creep(cs) == [cs |-> cs, new |-> <<>>]

IsVague(spec) ==
    LET has_numbers == \E i \in 1..Len(spec.text) : Ch(spec.text, i) \in DigitChars
        has_specifics == ContainsAny(LowerStr(spec.text),
                                     <<"exactly", "specifically", "must", "shall", "will">>)
        word_count == Len(Split(spec.text))
    IN  ~has_numbers /\ ~has_specifics /\ word_count > 10

LineEvidence(spec) ==
    "Line " \o ToString(spec.line_number) \o ": " \o Prefix(spec.text, 100) \o "..."

check_vagueness(cs, specs) ==
    Bind(SelectSeq(specs, IsVague), LAMBDA vague_specs :
        [cs |-> cs,
         new |-> IF vague_specs # <<>>
                 THEN <<Violation("MEDIUM", "VAGUENESS",
                          ToString(Len(vague_specs)) \o " vague specifications",
                          "These specifications lack concrete details or measurable criteria:",
                          [i \in 1..Min(5, Len(vague_specs)) |-> LineEvidence(vague_specs[i])],
                          [i \in 1..Len(vague_specs) |-> vague_specs[i].line_number],
                          <<>>, <<>>, None)>>
                 ELSE <<>>])

\* any(re.search(pattern, spec.text, re.IGNORECASE) for pattern in testable_indicators)
is_testable(text) ==
    Bind(LowerStr(text), LAMBDA low :
        \/ \E i \in 1..Len(text) : Ch(text, i) \in DigitChars
        \/ \E i \in 1..Len(text) : \E m \in {"shall", "must", "will"} :
              /\ StartsWithAt(low, i, m)
              /\ LET q == i + Len(m)
                     c == SkipWs(low, q)
                 IN  /\ c > q
                     /\ \E w \in {"be", "have", "support", "provide"} : StartsWithAt(low, c, w)
        \/ ContainsAny(low, <<"return", "output", "display", "store", "send">>))

untestable_words ==
    <<"appropriate", "adequate", "reasonable", "user-friendly",
      "intuitive", "easy", "simple", "good", "nice">>

IsUntestable(spec) ==
    ~is_testable(spec.text) \/ ContainsAny(LowerStr(spec.text), untestable_words)

check_testability(cs, specs) ==
    Bind(SelectSeq(specs, IsUntestable), LAMBDA untestable :
        [cs |-> cs,
         new |-> IF untestable # <<>>
                 THEN <<Violation("MEDIUM", "TESTABILITY",
                          ToString(Len(untestable)) \o " specifications may not be testable",
                          "These specifications lack concrete, measurable acceptance criteria:",
                          [i \in 1..Min(5, Len(untestable)) |-> LineEvidence(untestable[i])],
                          [i \in 1..Len(untestable) |-> untestable[i].line_number],
                          <<>>, <<>>, None)>>
                 ELSE <<>>])

terms_to_check ==
    << <<"user", "customer", "client">>,
       <<"login", "sign in", "authenticate">>,
       <<"database", "data store", "repository">>,
       <<"api", "service", "endpoint">> >>

check_consistency(cs, specs) ==
    Bind(JoinedText(specs), LAMBDA spec_text_lower :
        LET found_terms(term_group) ==
                SelectSeq(term_group, LAMBDA term : Contains(spec_text_lower, term))
        IN  Bind(MapIf(terms_to_check,
                       LAMBDA g : Len(found_terms(g)) > 1,
                       LAMBDA g : "Inconsistent terminology: " \o Join(" vs ", found_terms(g))),
                 LAMBDA inconsistencies :
        [cs |-> cs,
         new |-> IF inconsistencies # <<>>
                 THEN <<Violation("LOW", "CONSISTENCY",
                          ToString(Len(inconsistencies)) \o " consistency issues",
                          "Found inconsistent terminology or formatting:",
                          inconsistencies, <<>>, <<>>, <<>>, None)>>
                 ELSE <<>>]))

(***************************************************************************)
(* generate_report                                                         *)
(***************************************************************************)
Severities == <<"CRITICAL", "HIGH", "MEDIUM", "LOW", "INFO">>

\* severity_order[v.severity]
severity_order(sev) == (CHOOSE i \in 1..Len(Severities) : Severities[i] = sev) - 1

\* severity_counts after the loop over self.violations
severity_counts(vs) ==
    LET C[i \in 0..Len(vs)] ==
            IF i = 0 THEN [sev \in Range(Severities) |-> 0]
            ELSE [C[i - 1] EXCEPT ![vs[i].severity] = @ + 1]
    IN  C[Len(vs)]

\* A faulty variant of InsertByKey, which C16 must reject: the element is
\* put before the elements of equal key, which is not a stable sort.
InsertBeforeEqualKeys(seq, v) ==
    Bind(seq, LAMBDA sorted :
        Bind(Cardinality({i \in 1..Len(sorted) :
                             severity_order(sorted[i].severity) < severity_order(v.severity)}),
             LAMBDA k : SubSeq(sorted, 1, k) \o <<v>> \o SubSeq(sorted, k + 1, Len(sorted))))

\* sorted(vs, key=lambda v: severity_order[v.severity]): a stable sort, here
\* by insertion after the last element whose key is not greater
InsertByKey(seq, v) ==
    Bind(seq, LAMBDA sorted :
        Bind(Cardinality({i \in 1..Len(sorted) :
                             severity_order(sorted[i].severity) <= severity_order(v.severity)}),
             LAMBDA k : SubSeq(sorted, 1, k) \o <<v>> \o SubSeq(sorted, k + 1, Len(sorted))))

sorted_violations(vs) ==
    LET S[i \in 0..Len(vs)] == IF i = 0 THEN <<>> ELSE InsertByKey(S[i - 1], vs[i])
    IN  S[Len(vs)]

\* A faulty variant of Verdict, which C3 must reject: five HIGH violations
\* already make the verdict CONDITIONAL FAIL.
VerdictFromFive(critical_count, high_count) ==
    IF critical_count > 0
    THEN "FAILED - " \o ToString(critical_count) \o " CRITICAL issues must be resolved"
    ELSE IF high_count >= 5
    THEN "CONDITIONAL FAIL - " \o ToString(high_count) \o " HIGH severity issues need attention"
    ELSE IF high_count > 0
    THEN "PASS WITH CONCERNS - " \o ToString(high_count) \o " HIGH severity issues present"
    ELSE "PASSED - Minor issues only"

\* The verdict line of the report; the pictograph that opens each line in
\* the source is left out, the words and the counts are kept.
Verdict(critical_count, high_count) ==
    IF critical_count > 0
    THEN "FAILED - " \o ToString(critical_count) \o " CRITICAL issues must be resolved"
    ELSE IF high_count > 5
    THEN "CONDITIONAL FAIL - " \o ToString(high_count) \o " HIGH severity issues need attention"
    ELSE IF high_count > 0
    THEN "PASS WITH CONCERNS - " \o ToString(high_count) \o " HIGH severity issues present"
    ELSE "PASSED - Minor issues only"

generate_report(vs) ==
    Bind(severity_counts(vs), LAMBDA counts :
        [format |-> "text",
         total |-> Len(vs),
         histogram |-> SelectSeq([i \in 1..Len(Severities) |->
                                     <<Severities[i], counts[Severities[i]]>>],
                                 LAMBDA e : e[2] > 0),
         listing |-> sorted_violations(vs),
         verdict |-> Some(Verdict(counts["CRITICAL"], counts["HIGH"]))])

\* main()'s --json rendering: the accumulator in its own order, no verdict
json_report(vs) ==
    [format |-> "json",
     total |-> Len(vs),
     histogram |-> <<>>,
     listing |-> [i \in 1..Len(vs) |-> [vs[i] EXCEPT !.related_requirements = <<>>]],
     verdict |-> None]

(***************************************************************************)
(* main()                                                                  *)
(***************************************************************************)
\* DocumentParser.parse_file: the lines of a readable file (kept without
\* their line ends, which every extractor strips), [] for anything open()
\* refuses
parse_file(path) == IF fs[path].kind = "file" THEN fs[path].lines ELSE <<>>

\* Path.exists()
Exists(path) == fs[path].kind # "missing"

MandatoryPaths(a) == a.human_input \o a.requirements \o <<a.constitution, a.specification>>

\* The api_config dict main() builds: from the --api-config file, or from
\* --api-url; "enabled" is then set from --deep-analysis and the base URL.
ApiConfig(a) ==
    LET given == IF a.api_config # None THEN a.api_config[1]
                 ELSE [base_url |-> IF a.api_url # "" THEN Some(a.api_url) ELSE None,
                       max_retries |-> None]
        base_url == Get(given.base_url, "")
    IN  [base_url |-> given.base_url,
         max_retries |-> given.max_retries,
         enabled |-> IF a.deep_analysis THEN base_url # "" ELSE FALSE]

\* SourceDocumentAPI.__init__
SourceDocumentAPI(api_config) ==
    [cache |-> <<>>,
     base_url |-> Get(api_config.base_url, ""),
     max_retries |-> Get(api_config.max_retries, 3),
     enabled |-> api_config.enabled]

\* A faulty variant of EnableDeepAnalysis, which C1 must reject: the flag
\* follows the request alone, whatever the client's configuration.
EnableDeepAnalysisAsRequested(requested, client) == requested

\* SpecificationVerifier.__init__: self.enable_deep_analysis
EnableDeepAnalysis(requested, client) == requested /\ client.enabled

\* Path.name
PathName(path) == path

\* load_documents: the requirements of the human inputs, then of the
\* reverse-engineered requirement documents
LoadRequirements(a) ==
    FlatMap(a.human_input,
            LAMBDA doc : extract_requirements(parse_file(doc), "HUMAN_INPUT:" \o PathName(doc)))
    \o FlatMap(a.requirements,
               LAMBDA doc : extract_requirements(parse_file(doc), "REV_ENG:" \o PathName(doc)))

NoCall == [op |-> "none", doc_ids |-> <<>>, result |-> <<>>,
           cache_before |-> <<>>, net_before |-> <<>>]

ClientState == [cache |-> api_client.cache, net |-> net, ret |-> ret]

\* for filepath in ...: if not filepath.exists(): sys.exit(1)
Main_CheckFiles ==
    /\ pc = "start"
    /\ IF \E i \in 1..Len(MandatoryPaths(args)) : ~Exists(MandatoryPaths(args)[i])
       THEN pc' = "done" /\ exit_code' = Some(1)
       ELSE pc' = "load" /\ UNCHANGED exit_code
    /\ UNCHANGED shop
    /\ UNCHANGED <<args, fs, svc, seed, output, api_client, enable_deep_analysis,
                   requirements, principles, specifications, violations, net, ret, prev>>

\* The API configuration, the verifier's construction and load_documents.
Main_Load ==
    /\ pc = "load"
    /\ LET client == SourceDocumentAPI(ApiConfig(args))
       IN  /\ api_client' = client
           /\ enable_deep_analysis' = EnableDeepAnalysis(args.deep_analysis, client)
    /\ requirements' = requirements \o LoadRequirements(args)
    /\ principles' = extract_principles(parse_file(args.constitution))
    /\ specifications' = extract_specifications(parse_file(args.specification))
    /\ pc' = "check_requirement_coverage"
    /\ UNCHANGED shop
    /\ UNCHANGED <<args, fs, svc, seed, exit_code, output, violations, net, ret, prev>>

\* verify(): the checks in the order of their calls
CheckOrder ==
    <<"check_requirement_coverage", "check_orphaned_specifications",
      "check_principle_violations", "check_ambiguity", "check_contradictions",
      "check_completeness", "check_scope_creep", "check_vagueness",
      "check_testability", "check_consistency">>

CheckIndex(name) == CHOOSE i \in 1..Len(CheckOrder) : CheckOrder[i] = name

AfterCheck(name) ==
    IF CheckIndex(name) < Len(CheckOrder) THEN CheckOrder[CheckIndex(name) + 1] ELSE "report"

\* A faulty variant of RunCheck, which C8 must reject: the accumulator is
\* kept sorted by severity.
RunCheckSorted(name, r) ==
    /\ pc = name
    /\ violations' = sorted_violations(violations \o r.new)
    /\ api_client' = [api_client EXCEPT !.cache = r.cs.cache]
    /\ net' = r.cs.net
    /\ ret' = r.cs.ret
    /\ pc' = AfterCheck(name)
    /\ UNCHANGED shop
    /\ UNCHANGED <<args, fs, svc, seed, exit_code, output, enable_deep_analysis,
                   requirements, principles, specifications, prev>>

\* One check of verify(): r is what the check returns.
RunCheck(name, r) ==
    /\ pc = name
    /\ violations' = violations \o r.new
    /\ api_client' = [api_client EXCEPT !.cache = r.cs.cache]
    /\ net' = r.cs.net
    /\ ret' = r.cs.ret
    /\ pc' = AfterCheck(name)
    /\ UNCHANGED shop
    /\ UNCHANGED <<args, fs, svc, seed, exit_code, output, enable_deep_analysis,
                   requirements, principles, specifications, prev>>

Check_requirement_coverage ==
    RunCheck("check_requirement_coverage",
             check_requirement_coverage(ClientState, requirements, specifications,
                                        enable_deep_analysis))

Check_orphaned_specifications ==
    RunCheck("check_orphaned_specifications",
             check_orphaned_specifications(ClientState, requirements, specifications))

Check_principle_violations ==
    RunCheck("check_principle_violations",
             check_principle_violations(ClientState, requirements, principles,
                                        specifications, enable_deep_analysis))

Check_ambiguity ==
    RunCheck("check_ambiguity",
             check_ambiguity(ClientState, requirements, specifications, enable_deep_analysis))

Check_contradictions ==
    RunCheck("check_contradictions", check_contradictions(ClientState, specifications))

Check_completeness ==
    RunCheck("check_completeness",
             check_completeness(ClientState, requirements, specifications))

Check_scope_creep == RunCheck("check_scope_creep", check_scope_creep(ClientState))

Check_vagueness == RunCheck("check_vagueness", check_vagueness(ClientState, specifications))

Check_testability ==
    RunCheck("check_testability", check_testability(ClientState, specifications))

Check_consistency ==
    RunCheck("check_consistency", check_consistency(ClientState, specifications))

Verify ==
    \/ Check_requirement_coverage
    \/ Check_orphaned_specifications
    \/ Check_principle_violations
    \/ Check_ambiguity
    \/ Check_contradictions
    \/ Check_completeness
    \/ Check_scope_creep
    \/ Check_vagueness
    \/ Check_testability
    \/ Check_consistency

\* The report, in the format asked for, written to the output.
Main_Report ==
    /\ pc = "report"
    /\ output' = Some(IF args.json THEN json_report(violations) ELSE generate_report(violations))
    /\ pc' = "exit"
    /\ UNCHANGED shop
    /\ UNCHANGED <<args, fs, svc, seed, exit_code, api_client, enable_deep_analysis,
                   requirements, principles, specifications, violations, net, ret, prev>>

\* sys.exit(1 if critical_count > 0 else 0)
ExitCode(vs) ==
    IF Cardinality({i \in 1..Len(vs) : vs[i].severity = "CRITICAL"}) > 0 THEN 1 ELSE 0

Main_Exit ==
    /\ pc = "exit"
    /\ exit_code' = Some(ExitCode(violations))
    /\ pc' = "done"
    /\ UNCHANGED shop
    /\ UNCHANGED <<args, fs, svc, seed, output, api_client, enable_deep_analysis,
                   requirements, principles, specifications, violations, net, ret, prev>>

(***************************************************************************)
(* The runs of main() that are explored: command lines, input files, the   *)
(* document service and the interpreter's hash seed.                       *)
(***************************************************************************)
NumSeeds == 2
Seeds == 0..(NumSeeds - 1)

HumanPath == "human.txt"
ReqsPath == "reqs.txt"
ConstitutionPath == "constitution.md"
SpecificationPath == "spec.md"
Paths == {HumanPath, ReqsPath, ConstitutionPath, SpecificationPath}

\* Lines of requirement documents
ReqSearch == "The system MUST allow search by title, author, or ISBN. [SRC:d1]"
ReqPasswords == "Passwords MUST be encrypted and never logged in plaintext. [DOC:d1] [SRC:d2]"
ReqExport == "Users should export order history reports as spreadsheet files [SRC:d2]"
ReqInvoices == "REQ-7: Invoices include itemized taxes"
ReqShort == "1. Do it now ok"
ReqExportPlain == "Users should export order history reports as spreadsheet files."
ScenarioBLine == "Passwords MUST be encrypted and never logged in plaintext."
ReqHalf == "The system MUST index title pages often"
ReqKept == "User passwords MUST NOT be stored as plaintext passwords [SRC:d1] [DOC:d2]"

ReqArchive == "Orders MUST be archived yearly [SRC:d1] [DOC:d1]"

\* Lines of constitutions
PrinHeader == "SECURITY"
PrinLogs == "- Sensitive data must never appear in logs."
PrinPlaintext == "- Plaintext passwords are prohibited and must not be shown in any lookup"
PrinStore == "- Plaintext passwords must not be kept in any data store"
PrinCannot == "- Customer passwords cannot be written to any log"
PrinRule == "- RULE: no logs"

\* Lines of specifications
SpecSearch == "- Search supports title and author lookup."
SpecStatus == "- The service may display user order status as needed"
SpecReturns == "- The search service returns title results"
SpecNever == "- The search service never returns title results"
SpecWishes ==
    "- Customer wish lists are kept in the cloud for a long while and then they are dropped"
SpecVerbatim == "- The system will allow search by title, author, or ISBN. Do it now ok"
SpecTitle == "- The title index is rebuilt within 5 seconds"
SpecPasswords == "- Passwords are stored in plaintext and may be rotated as needed"
SpecPort == "- A port and a sheet are set"
SpecResets == "- Password resets are sent by mail"
SpecSearchNumbered == "2. Search supports title and author lookup"
SpecNightly == "- Customer data is exported nightly"
SpecWritten == "- Customer passwords are written to the debug log"

\* Scenario C: the principle and the specification line
ScenarioCPrinciple == "Sensitive data must never appear in logs"
ScenarioCItem ==
    "All authentication attempts are logged, including failed password fields for debugging"
SpecAttempts == "- " \o ScenarioCItem \o "."

\* Scenario D: the two specification lines
ScenarioDReturns == "The API returns results within 2 seconds"
ScenarioDBound == "The API does not guarantee any response time bound"
SpecTiny == "1. Do it now ok"

\* A set of input documents: the lines of each file
Docs(human, reqs, constitution, specification) ==
    [human |-> human, reqs |-> reqs, constitution |-> constitution,
     specification |-> specification]

EmptyDocs == Docs(<<>>, <<>>, <<>>, <<>>)
ScenarioA == Docs(<<ReqSearch>>, <<>>, <<>>, <<SpecSearch>>)
ScenarioB == Docs(<<ReqPasswords>>, <<>>, <<>>, <<SpecSearch>>)
HalfDocs == Docs(<<ReqHalf, ReqSearch, ReqPasswords>>, <<ReqShort>>, <<>>, <<SpecTitle>>)
VerbatimDocs == Docs(<<ReqSearch, ReqShort>>, <<ReqHalf>>, <<PrinHeader, PrinLogs>>,
                     <<SpecVerbatim>>)
ManyUncovered ==
    Docs(<<ReqPasswords, ReqExport, ReqInvoices>>, <<ReqPasswords, ReqExport, ReqInvoices>>,
         <<>>, <<SpecSearch>>)
FullDocs ==
    Docs(<<ReqPasswords, ReqSearch, ReqShort>>, <<ReqExport, ReqInvoices>>,
         <<PrinHeader, PrinLogs, PrinPlaintext>>,
         <<SpecSearch, SpecStatus, SpecReturns, SpecNever, SpecWishes>>)
DeepDocs ==
    Docs(<<ReqKept, ReqExport>>, <<>>, <<PrinHeader, PrinStore>>,
         <<SpecSearch, SpecPasswords>>)

CannotDocs == Docs(<<>>, <<>>, <<PrinHeader, PrinCannot, PrinRule>>, <<SpecWritten>>)

TwiceDocs == Docs(<<ReqArchive>>, <<>>, <<>>, <<SpecSearch>>)

OrphanDocs == Docs(<<ReqExport>>, <<>>, <<>>, <<SpecPort, SpecTiny, SpecWishes, SpecStatus>>)

ScenarioBResets == Docs(<<ScenarioBLine>>, <<>>, <<>>, <<SpecSearch, SpecResets>>)
ScenarioBNever == Docs(<<ReqSearch, ScenarioBLine>>, <<>>, <<>>, <<SpecSearch, SpecNever>>)

ScenarioC == Docs(<<>>, <<>>, <<PrinHeader, PrinLogs>>, <<SpecAttempts>>)
ScenarioCNightly == Docs(<<>>, <<>>, <<PrinHeader, PrinLogs>>, <<SpecAttempts, SpecNightly>>)
ScenarioD ==
    Docs(<<>>, <<>>, <<>>, <<"- " \o ScenarioDReturns, "- " \o ScenarioDBound>>)

RepeatedDocs ==
    Docs(<<ReqExport, ReqInvoices>>, <<ReqInvoices, ReqExportPlain>>, <<>>,
         <<SpecSearch, SpecSearchNumbered>>)

DocSets == {EmptyDocs, ScenarioA, ScenarioB, HalfDocs, VerbatimDocs, ManyUncovered, FullDocs,
            DeepDocs, OrphanDocs, ScenarioBResets, ScenarioBNever, ScenarioC,
            ScenarioCNightly, ScenarioD, RepeatedDocs, CannotDocs}

\* Kinds of directory entries: a regular file, a directory, nothing
Kinds == {"file", "dir", "missing"}

\* A file system that holds the documents, each path with its kind
FileSystem(docs, kind) ==
    LET lines == (HumanPath :> docs.human) @@ (ReqsPath :> docs.reqs)
                 @@ (ConstitutionPath :> docs.constitution)
                 @@ (SpecificationPath :> docs.specification)
    IN  [p \in Paths |-> [kind |-> kind[p],
                           lines |-> IF kind[p] = "file" THEN lines[p] ELSE <<>>]]

AllFiles == [p \in Paths |-> "file"]

\* Decoded payloads of the document service
Payload(type, title, date, participants, content) ==
    [type |-> type, title |-> title, date |-> date, participants |-> participants,
     content |-> content]

MinutesText == "Ann: passwords are encrypted.\nBob: nothing is logged in plaintext."
MemoText == "Stored passwords stay encrypted; order history reports export as files."

Minutes ==
    Payload(Some("transcript"), Some("Kickoff"), Some("2024-01-05"), Some(<<"Ann", "Bob">>),
            Some(MinutesText))
Memo == Payload(None, None, None, None, Some(MemoText))
Blank == Payload(None, None, None, None, None)

Ok(data) == [kind |-> "ok", code |-> 200, data |-> Some(data)]
HttpError(code) == [kind |-> "http_error", code |-> code, data |-> None]
UrlError == [kind |-> "url_error", code |-> 0, data |-> None]
Undecodable == [kind |-> "undecodable", code |-> 200, data |-> None]

DocIds == {"d1", "d2"}

\* Document services: what each identifier is answered with
Services ==
    {("d1" :> Ok(Minutes)) @@ ("d2" :> Ok(Memo)),
     ("d1" :> Ok(Minutes)) @@ ("d2" :> HttpError(404)),
     ("d1" :> HttpError(401)) @@ ("d2" :> Ok(Memo)),
     ("d1" :> UrlError) @@ ("d2" :> Undecodable),
     ("d1" :> Ok(Blank)) @@ ("d2" :> Ok(Minutes))}

NoService == [d \in DocIds |-> UrlError]

\* The parsed command line
Args(deep_analysis, api_url, api_config, json) ==
    [human_input |-> <<HumanPath>>, requirements |-> <<ReqsPath>>,
     constitution |-> ConstitutionPath, specification |-> SpecificationPath,
     deep_analysis |-> deep_analysis, api_url |-> api_url, api_config |-> api_config,
     json |-> json]

ConfigFile == [base_url |-> Some("https://docs.example/api"), max_retries |-> Some(5)]
ConfigFileNoUrl == [base_url |-> None, max_retries |-> Some(0)]

ApiUrls == {"", "http://docs", "docs.example"}

Case(a, docs, kind, service, sd) ==
    [args |-> a, fs |-> FileSystem(docs, kind), svc |-> service, seed |-> sd]

\* Runs over every kind of directory entry at every mandatory path
FileCases ==
    {Case(Args(FALSE, "", None, FALSE), ScenarioA, kind, NoService, 0) :
        kind \in [Paths -> Kinds]}

\* Runs over the document sets, without deep analysis
TextCases ==
    {Case(Args(FALSE, "", None, FALSE), docs, AllFiles, NoService, 0) : docs \in DocSets}
    \cup {Case(Args(FALSE, "", None, TRUE), docs, AllFiles, NoService, 0) :
            docs \in {EmptyDocs, FullDocs}}
    \cup {Case(Args(FALSE, "http://docs", None, FALSE), docs, AllFiles, service, 0) :
            docs \in {ScenarioB, DeepDocs}, service \in Services}

\* Runs that ask for deep analysis
DeepCases ==
    {Case(Args(TRUE, url, None, FALSE), docs, AllFiles, service, sd) :
        url \in ApiUrls, docs \in {DeepDocs, ScenarioB}, service \in Services, sd \in Seeds}
    \cup {Case(Args(deep, "", Some(config), FALSE), DeepDocs, AllFiles, service, 0) :
            deep \in BOOLEAN, config \in {ConfigFile, ConfigFileNoUrl}, service \in Services}
    \cup {Case(Args(TRUE, "http://docs", None, FALSE), docs, AllFiles, service, 0) :
            docs \in {ManyUncovered, TwiceDocs, HalfDocs}, service \in Services}

Cases == FileCases \cup TextCases \cup DeepCases

\* The state of a process that has parsed its command line
Start(c) ==
    /\ args = c.args
    /\ fs = c.fs
    /\ svc = c.svc
    /\ seed = c.seed
    /\ pc = "start"
    /\ exit_code = None
    /\ output = None
    /\ api_client = SourceDocumentAPI([base_url |-> None, max_retries |-> None,
                                       enabled |-> FALSE])
    /\ enable_deep_analysis = FALSE
    /\ requirements = <<>>
    /\ principles = <<>>
    /\ specifications = <<>>
    /\ violations = <<>>
    /\ net = <<>>
    /\ ret = NoCall
    /\ prev = None
    /\ ShopClosed

Init == \E c \in Cases : Start(c)

\* What a finished run has produced
Outcome == [output |-> output, exit_code |-> exit_code, violations |-> violations]

\* The same command is run again, on the same files against the same
\* service, by a new interpreter process: it has its own hash seed and
\* starts from main()'s initial state.
Rerun ==
    /\ pc = "done"
    /\ prev = None
    /\ prev' = Some(Outcome)
    /\ \E sd \in Seeds : seed' = sd
    /\ pc' = "start"
    /\ exit_code' = None
    /\ output' = None
    /\ api_client' = SourceDocumentAPI([base_url |-> None, max_retries |-> None,
                                        enabled |-> FALSE])
    /\ enable_deep_analysis' = FALSE
    /\ requirements' = <<>>
    /\ principles' = <<>>
    /\ specifications' = <<>>
    /\ violations' = <<>>
    /\ net' = <<>>
    /\ ret' = NoCall
    /\ UNCHANGED shop
    /\ UNCHANGED <<args, fs, svc>>

Next ==
    \/ Main_CheckFiles
    \/ Main_Load
    \/ Verify
    \/ Main_Report
    \/ Main_Exit
    \/ Rerun

Spec == Init /\ [][Next]_vars

\* One run of the pipeline with deep analysis asked for, against every
\* service.  main() is a sequential program: each of its steps is taken
\* once it is enabled.
LiveCases ==
    {Case(Args(TRUE, url, None, FALSE), DeepDocs, AllFiles, service, sd) :
        url \in ApiUrls, service \in Services, sd \in Seeds}

InitLive == \E c \in LiveCases : Start(c)

Run ==
    \/ Main_CheckFiles
    \/ Main_Load
    \/ Verify
    \/ Main_Report
    \/ Main_Exit

FairSpec == InitLive /\ [][Run]_vars /\ WF_vars(Run)

(***************************************************************************)
(* The client used on its own: a caller fetches documents, one by one or   *)
(* in batches, from a service whose answers may change between calls.      *)
(***************************************************************************)
MaxNet == 3
MaxIds == 2

ClientConfigs ==
    {[base_url |-> Some("http://docs"), max_retries |-> None, enabled |-> TRUE],
     [base_url |-> Some("http://docs"), max_retries |-> Some(5), enabled |-> TRUE],
     [base_url |-> Some("docs.example"), max_retries |-> Some(0), enabled |-> TRUE],
     [base_url |-> None, max_retries |-> None, enabled |-> TRUE],
     [base_url |-> Some("http://docs"), max_retries |-> None, enabled |-> FALSE]}

\* The lists of at most MaxIds identifiers
IdLists == UNION {[1..n -> DocIds] : n \in 0..MaxIds}

InitClient ==
    /\ \E config \in ClientConfigs : api_client = SourceDocumentAPI(config)
    /\ svc \in Services
    /\ pc = "client"
    /\ args = Args(FALSE, "", None, FALSE)
    /\ fs = FileSystem(EmptyDocs, AllFiles)
    /\ seed = 0
    /\ exit_code = None
    /\ output = None
    /\ enable_deep_analysis = FALSE
    /\ requirements = <<>>
    /\ principles = <<>>
    /\ specifications = <<>>
    /\ violations = <<>>
    /\ net = <<>>
    /\ ret = NoCall
    /\ prev = None
    /\ ShopClosed

\* api_client.fetch_document(doc_id)
ClientFetch ==
    /\ pc = "client"
    /\ Len(net) < MaxNet
    /\ \E doc_id \in DocIds :
        LET f == fetch_document(ClientState, doc_id)
        IN  /\ api_client' = [api_client EXCEPT !.cache = f.cs.cache]
            /\ net' = f.cs.net
            /\ ret' = [op |-> "fetch_document", doc_ids |-> <<doc_id>>, result |-> f.result,
                       cache_before |-> api_client.cache, net_before |-> net]
    /\ UNCHANGED shop
    /\ UNCHANGED <<args, fs, svc, seed, pc, exit_code, output, enable_deep_analysis,
                   requirements, principles, specifications, violations, prev>>

\* api_client.fetch_multiple(doc_ids)
ClientFetchMultiple ==
    /\ pc = "client"
    /\ \E doc_ids \in IdLists :
        /\ Len(net) + Len(doc_ids) <= MaxNet
        /\ LET f == fetch_multiple(ClientState, doc_ids)
           IN  /\ api_client' = [api_client EXCEPT !.cache = f.cs.cache]
               /\ net' = f.cs.net
               /\ ret' = f.cs.ret
    /\ UNCHANGED shop
    /\ UNCHANGED <<args, fs, svc, seed, pc, exit_code, output, enable_deep_analysis,
                   requirements, principles, specifications, violations, prev>>

\* The service changes what it answers.
ServiceChange ==
    /\ pc = "client"
    /\ \E service \in Services : service # svc /\ svc' = service
    /\ UNCHANGED shop
    /\ UNCHANGED <<args, fs, seed, pc, exit_code, output, api_client, enable_deep_analysis,
                   requirements, principles, specifications, violations, net, ret, prev>>

NextClient ==
    \/ ClientFetch
    \/ ClientFetchMultiple
    \/ ServiceChange

SpecClient == InitClient /\ [][NextClient]_vars

(***************************************************************************)
(* The report on its own: generate_report and the exit code over           *)
(* accumulators of every mix of severities.                                *)
(***************************************************************************)
MaxCritical == 2
MaxHigh == 7
MaxOther == 2

\* A Violation of the given severity
Finding(severity) ==
    Violation(severity, "COVERAGE", "finding", "description", <<"evidence">>, <<>>, <<>>,
              <<>>, None)

Repeat(v, n) == [i \in 1..n |-> v]

InitReport ==
    /\ \E critical \in 0..MaxCritical, high \in 0..MaxHigh, other \in 0..MaxOther,
          severity \in {"MEDIUM", "LOW", "INFO"}, reversed \in BOOLEAN :
          LET vs == Repeat(Finding(severity), other) \o Repeat(Finding("HIGH"), high)
                    \o Repeat(Finding("CRITICAL"), critical)
          IN  violations = IF reversed THEN Reverse(vs) ELSE vs
    /\ \E json \in BOOLEAN : args = Args(FALSE, "", None, json)
    /\ pc = "report"
    /\ fs = FileSystem(EmptyDocs, AllFiles)
    /\ svc = NoService
    /\ seed = 0
    /\ exit_code = None
    /\ output = None
    /\ api_client = SourceDocumentAPI(ApiConfig(args))
    /\ enable_deep_analysis = FALSE
    /\ requirements = <<>>
    /\ principles = <<>>
    /\ specifications = <<>>
    /\ net = <<>>
    /\ ret = NoCall
    /\ prev = None
    /\ ShopClosed

NextReport ==
    \/ Main_Report
    \/ Main_Exit

SpecReport == InitReport /\ [][NextReport]_vars

(***************************************************************************)
(* cart-service: routers/cart.py.  Each handler runs in its own session    *)
(* and commits before it returns; the handlers are taken one at a time.    *)
(***************************************************************************)
MaxQuantity == 2

\* User ids and ASINs are query parameters, any strings
ShopUsers == {"u1001", "u1001-B00"}
Asins == {"BKQT2OI", "B00-BKQT2OI"}

\* f"{user_id}-{asin}"
get_cart_key(user_id, asin) == user_id \o "-" \o asin

\* session.delete of the rows with the given keys
DeleteRows(table, keys) == [k \in DOMAIN table \ keys |-> table[k]]

\* select(ShoppingCart).where(ShoppingCart.user_id == userid)
RowsOf(table, userid) == {k \in DOMAIN table : table[k].user_id = userid}

\* add_product_to_cart: the table after the commit
add_product_to_cart(table, userid, asin) ==
    LET cart_key == get_cart_key(userid, asin)
    IN  IF cart_key \in DOMAIN table
        THEN [table EXCEPT ![cart_key].quantity = @ + 1]
        ELSE table @@ (cart_key :> [user_id |-> userid, asin |-> asin, quantity |-> 1])

\* get_products_in_cart: result[item.asin] = item.quantity
get_products_in_cart(table, userid) ==
    LET rows == RowsOf(table, userid)
    IN  [a \in {table[k].asin : k \in rows} |->
            table[CHOOSE k \in rows : table[k].asin = a].quantity]

\* remove_product_from_cart: the table after the commit, if there is one
remove_product_from_cart(table, userid, asin) ==
    LET cart_key == get_cart_key(userid, asin)
    IN  IF cart_key \in DOMAIN table
        THEN IF table[cart_key].quantity > 1
             THEN [table EXCEPT ![cart_key].quantity = @ - 1]
             ELSE DeleteRows(table, {cart_key})
        ELSE table

\* clear_cart: the table after the commit
clear_cart(table, userid) == DeleteRows(table, RowsOf(table, userid))

\* A call of the cart service and its response
CartReply(op, userid, asin, body) ==
    [op |-> op, userid |-> userid, asin |-> asin, status_code |-> 200, body |-> body,
     before |-> shopping_cart]

AddProduct ==
    \E userid \in ShopUsers, asin \in Asins :
        /\ get_cart_key(userid, asin) \in DOMAIN shopping_cart =>
               shopping_cart[get_cart_key(userid, asin)].quantity < MaxQuantity
        /\ shopping_cart' = add_product_to_cart(shopping_cart, userid, asin)
        /\ cart_reply' = CartReply("addProduct", userid, asin, "Added to Cart")
        /\ UNCHANGED <<product_inventory, orders, checkouts>>
        /\ UNCHANGED <<verifier, gateway, stock>>

ProductsInCart ==
    \E userid \in ShopUsers :
        /\ cart_reply' = CartReply("productsInCart", userid, "",
                                   get_products_in_cart(shopping_cart, userid))
        /\ UNCHANGED <<shopping_cart, product_inventory, orders, checkouts>>
        /\ UNCHANGED <<verifier, gateway, stock>>

RemoveProduct ==
    \E userid \in ShopUsers, asin \in Asins :
        /\ shopping_cart' = remove_product_from_cart(shopping_cart, userid, asin)
        /\ cart_reply' = CartReply("removeProduct", userid, asin, "Removing from Cart")
        /\ UNCHANGED <<product_inventory, orders, checkouts>>
        /\ UNCHANGED <<verifier, gateway, stock>>

ClearCart ==
    \E userid \in ShopUsers :
        /\ shopping_cart' = clear_cart(shopping_cart, userid)
        /\ cart_reply' = CartReply("clearCart", userid, "",
                                   "Clearing Cart, Checkout successful")
        /\ UNCHANGED <<product_inventory, orders, checkouts>>
        /\ UNCHANGED <<verifier, gateway, stock>>

\* The verifier is not running.
VerifierIdle ==
    /\ args = Args(FALSE, "", None, FALSE)
    /\ fs = FileSystem(EmptyDocs, AllFiles)
    /\ svc = NoService
    /\ seed = 0
    /\ pc = "shop"
    /\ exit_code = None
    /\ output = None
    /\ api_client = SourceDocumentAPI(ApiConfig(args))
    /\ enable_deep_analysis = FALSE
    /\ requirements = <<>>
    /\ principles = <<>>
    /\ specifications = <<>>
    /\ violations = <<>>
    /\ net = <<>>
    /\ ret = NoCall
    /\ prev = None

\* The cart service on an empty table
InitCart ==
    /\ VerifierIdle
    /\ ShopClosed

NextCart ==
    \/ AddProduct
    \/ ProductsInCart
    \/ RemoveProduct
    \/ ClearCart

SpecCart == InitCart /\ [][NextCart]_vars

(***************************************************************************)
(* checkout-service: routers/checkout.py.  A request runs in its own       *)
(* session; its steps are the awaits and the database calls of checkout(), *)
(* and the steps of several requests interleave.  The cart service, the    *)
(* products service and the database may fail at every call.               *)
(***************************************************************************)
MaxRequests == 2
Requests == 1..MaxRequests

\* CheckoutStatus(orderNumber, status, orderDetails)
CheckoutStatus(orderNumber, status, orderDetails) ==
    [orderNumber |-> orderNumber, status |-> status, orderDetails |-> orderDetails]

\* A handler that answers with the number of the order it has committed
FailedWithOrderNumber(request, message) ==
    [request EXCEPT !.pc = "done", !.pending = <<>>,
                    !.response = Some(CheckoutStatus(request.order_id, "FAILURE",
                                                     "Error: " \o message))]

\* except Exception as e: session.rollback(); the response of line 104
Failed(request, message) ==
    [request EXCEPT !.pc = "done", !.pending = <<>>,
                    !.response = Some(CheckoutStatus("", "FAILURE", "Error: " \o message))]

\* A request that has not been received
IdleRequest ==
    [pc |-> "idle", userid |-> "", products_in_cart |-> <<>>, items |-> <<>>, pending |-> <<>>,
     order_details_str |-> "", total_price |-> 0, order_id |-> "", response |-> None]

\* What a call of another service can come to: a 200 response, a response
\* with another status, or an exception of the HTTP client
CallOutcomes == {"ok", "status", "exception"}

\* The orders in which a dict can list its keys
Orderings(S) ==
    {order \in [1..Cardinality(S) -> S] :
        \A i, j \in 1..Cardinality(S) : order[i] = order[j] => i = j}

\* Responses of the products service to GET /product/{asin}: the product
\* with or without title and price, or no product
ProductData == {[title |-> Some("Dune"), price |-> Some(12)], [title |-> None, price |-> None]}

\* str(uuid.uuid4()): an identifier that no order has
uuid4 == "order-" \o ToString(Cardinality(orders) + 1)

\* f"{total_price}" of the float total
FloatStr(n) == ToString(n) \o ".0"

\* Lines 31-38: the cart is fetched from the cart service.
Checkout_GetCart(r) ==
    /\ checkouts[r].pc = "idle"
    /\ \E userid \in ShopUsers, outcome \in CallOutcomes :
          LET request == [checkouts[r] EXCEPT !.userid = userid]
              products_in_cart == get_products_in_cart(shopping_cart, userid)
          IN  CASE outcome = "exception" ->
                       checkouts' = [checkouts EXCEPT ![r] = Failed(request, "connect")]
                [] outcome = "status" ->
                       checkouts' = [checkouts EXCEPT
                                        ![r] = Failed(request, "500: Failed to fetch cart")]
                [] outcome = "ok" /\ DOMAIN products_in_cart = {} ->
                       checkouts' = [checkouts EXCEPT ![r] =
                           [request EXCEPT !.pc = "done",
                               !.response = Some(CheckoutStatus("", "FAILURE", "Cart is empty"))]]
                [] outcome = "ok" /\ DOMAIN products_in_cart # {} ->
                       \E order \in Orderings(DOMAIN products_in_cart) :
                           checkouts' = [checkouts EXCEPT ![r] =
                               [request EXCEPT !.pc = "item",
                                   !.products_in_cart = products_in_cart,
                                   !.items = [i \in DOMAIN order |->
                                                 <<order[i], products_in_cart[order[i]]>>],
                                   !.order_details_str = "Customer bought these Items: "]]
    /\ UNCHANGED <<shopping_cart, product_inventory, orders, cart_reply>>
    /\ UNCHANGED <<verifier, gateway, stock>>

\* Lines 45-74, one iteration of the loop: the product is fetched, its
\* inventory row is read and, if it suffices, deducted in the session.
Checkout_Item(r) ==
    /\ checkouts[r].pc = "item"
    /\ LET request == checkouts[r]
           asin == request.items[1][1]
           quantity == request.items[1][2]
       IN  \E outcome \in CallOutcomes, product_data \in ProductData, db_ok \in BOOLEAN :
             CASE outcome = "exception" ->
                      checkouts' = [checkouts EXCEPT ![r] = Failed(request, "connect")]
               [] outcome = "status" ->
                      checkouts' = [checkouts EXCEPT
                          ![r] = Failed(request, "404: Product " \o asin \o " not found")]
               [] outcome = "ok" /\ ~db_ok ->
                      checkouts' = [checkouts EXCEPT ![r] = Failed(request, "database")]
               [] outcome = "ok" /\ db_ok /\ asin \notin DOMAIN product_inventory ->
                      checkouts' = [checkouts EXCEPT
                          ![r] = Failed(request, "404: Inventory for " \o asin \o " not found")]
               [] outcome = "ok" /\ db_ok /\ asin \in DOMAIN product_inventory ->
                      IF product_inventory[asin] < quantity
                      THEN checkouts' = [checkouts EXCEPT ![r] =
                               [request EXCEPT !.pc = "done", !.pending = <<>>,
                                   !.response = Some(CheckoutStatus("", "FAILURE",
                                       "Product is Out of Stock: "
                                       \o Get(product_data.title, "None")))]]
                      ELSE checkouts' = [checkouts EXCEPT ![r] =
                               [request EXCEPT
                                   !.pc = IF Len(request.items) = 1 THEN "commit" ELSE "item",
                                   !.items = Tail(request.items),
                                   !.pending = (asin :> (product_inventory[asin] - quantity))
                                               @@ request.pending,
                                   !.total_price = @ + Get(product_data.price, 0) * quantity,
                                   !.order_details_str = @ \o " Product: "
                                       \o Get(product_data.title, "Unknown") \o ", Quantity: "
                                       \o ToString(quantity) \o ";"]]
    /\ UNCHANGED <<shopping_cart, product_inventory, orders, cart_reply>>
    /\ UNCHANGED <<verifier, gateway, stock>>

\* Lines 76-89: the order is created and the session is committed: the
\* deducted quantities and the order are written.
Checkout_Commit(r) ==
    /\ checkouts[r].pc = "commit"
    /\ LET request == checkouts[r]
           details == request.order_details_str \o " Order Total is : "
                      \o FloatStr(request.total_price)
       IN  \E db_ok \in BOOLEAN :
             IF db_ok
             THEN /\ product_inventory' = request.pending @@ product_inventory
                  /\ orders' = orders \cup {[order_id |-> uuid4, user_id |-> 1,
                                              order_details |-> details,
                                              order_total |-> request.total_price]}
                  /\ checkouts' = [checkouts EXCEPT ![r] =
                         [request EXCEPT !.pc = "clear", !.pending = <<>>,
                                         !.order_details_str = details, !.order_id = uuid4]]
             ELSE /\ checkouts' = [checkouts EXCEPT ![r] = Failed(request, "database")]
                  /\ UNCHANGED <<product_inventory, orders>>
    /\ UNCHANGED <<shopping_cart, cart_reply>>
    /\ UNCHANGED <<verifier, gateway, stock>>

\* Lines 91-99: the cart service is asked to clear the cart; the status of
\* its response is not read.  An exception of the HTTP client reaches the
\* handler of line 101, whether or not the cart service has done the call.
Checkout_ClearCart(r) ==
    /\ checkouts[r].pc = "clear"
    /\ LET request == checkouts[r]
       IN  \E outcome \in CallOutcomes, done \in BOOLEAN :
             /\ outcome = "ok" => done
             /\ outcome = "status" => ~done
             /\ shopping_cart' = IF done THEN clear_cart(shopping_cart, request.userid)
                                 ELSE shopping_cart
             /\ checkouts' = [checkouts EXCEPT ![r] =
                    IF outcome = "exception" THEN Failed(request, "connect")
                    ELSE [request EXCEPT !.pc = "done",
                             !.response = Some(CheckoutStatus(request.order_id, "SUCCESS",
                                                              request.order_details_str))]]
    /\ UNCHANGED <<product_inventory, orders, cart_reply>>
    /\ UNCHANGED <<verifier, gateway, stock>>

\* The carts and the inventories that the checkout requests start from
CartOf(userid, asins) ==
    LET Add[i \in 0..Len(asins)] ==
            IF i = 0 THEN <<>> ELSE add_product_to_cart(Add[i - 1], userid, asins[i])
    IN  Add[Len(asins)]

InitialCarts ==
    {CartOf("u1001", <<>>),
     CartOf("u1001", <<"BKQT2OI">>),
     CartOf("u1001", <<"BKQT2OI", "B00-BKQT2OI", "BKQT2OI">>)}

InitialInventories ==
    {("BKQT2OI" :> 2) @@ ("B00-BKQT2OI" :> 1),
     ("BKQT2OI" :> 1) @@ ("B00-BKQT2OI" :> 1),
     ("BKQT2OI" :> 3)}

InitCheckout ==
    /\ VerifierIdle
    /\ shopping_cart \in InitialCarts
    /\ product_inventory \in InitialInventories
    /\ orders = {}
    /\ checkouts = [r \in Requests |-> IdleRequest]
    /\ cart_reply = <<>>
    /\ gateway = <<>>
    /\ stock = product_inventory

NextCheckout ==
    \E r \in Requests :
        \/ Checkout_GetCart(r)
        \/ Checkout_Item(r)
        \/ Checkout_Commit(r)
        \/ Checkout_ClearCart(r)

SpecCheckout == InitCheckout /\ [][NextCheckout]_vars

(***************************************************************************)
(* api-gateway: routers/proxy.py.  Every request is checked by             *)
(* verify_token and then forwarded to the service that its path names.     *)
(***************************************************************************)
MaxExchanges == 2

PRODUCTS_SERVICE_URL == "http://products-microservice:8082"
CART_SERVICE_URL == "http://cart-microservice:8083"
CHECKOUT_SERVICE_URL == "http://checkout-microservice:8084"
LOGIN_SERVICE_URL == "http://login-microservice:8085"

\* HTTPException(status_code, detail)
HTTPException(status_code, detail) == [status_code |-> status_code, detail |-> detail]

\* jwt.decode(token, SECRET_KEY, algorithms=[ALGORITHM]): the payload of a
\* token that is signed with the key, None for a JWTError
jwt_decode(token) ==
    CASE token = "signed.alice" -> Some([sub |-> Some("alice")])
      [] token = "signed.nosub" -> Some([sub |-> None])
      [] OTHER -> None

\* verify_token: the exception it raises, None if it returns
verify_token(request) ==
    LET path == request.path
        auth_header == request.authorization
    IN  IF StartsWithAt(path, 1, "/login-microservice") \/ path = "/products-microservice/products"
        THEN None
        ELSE IF auth_header = None \/ auth_header = Some("")
        THEN IF Contains(path, "checkout") \/ Contains(path, "addProduct")
             THEN Some(HTTPException(401, "Missing Authentication"))
             ELSE None
        ELSE Bind(Split(auth_header[1]), LAMBDA parts :
                 IF Len(parts) # 2 THEN Some(HTTPException(401, "Invalid token"))
                 ELSE IF LowerStr(parts[1]) # "bearer"
                 THEN Some(HTTPException(401, "Invalid authentication scheme"))
                 ELSE IF jwt_decode(parts[2]) = None
                 THEN Some(HTTPException(401, "Invalid token"))
                 ELSE IF jwt_decode(parts[2])[1].sub = None
                 THEN Some(HTTPException(401, "Invalid token"))
                 ELSE None)

\* The routing logic of proxy: the URL the request is forwarded to
Route(path) ==
    CASE StartsWithAt(path, 1, "products-microservice") ->
             Some(PRODUCTS_SERVICE_URL \o "/" \o path)
      [] StartsWithAt(path, 1, "cart-microservice") -> Some(CART_SERVICE_URL \o "/" \o path)
      [] StartsWithAt(path, 1, "checkout-microservice") ->
             Some(CHECKOUT_SERVICE_URL \o "/" \o path)
      [] StartsWithAt(path, 1, "login-microservice") -> Some(LOGIN_SERVICE_URL \o "/" \o path)
      [] OTHER -> None

\* The exchange of one request: the URL it was forwarded to, if any, and
\* the status of the response
Exchange(request, url, status_code, detail) ==
    [method |-> request.method, path |-> request.path,
     authorization |-> request.authorization,
     url |-> url, status_code |-> status_code, detail |-> detail]

\* proxy(request, path): backend is the status of the service's response,
\* 0 for an httpx.RequestError
proxy(request, backend) ==
    Bind(verify_token(request), LAMBDA raised :
        IF raised # None
        THEN Exchange(request, None, raised[1].status_code, raised[1].detail)
        ELSE Bind(Route(From(request.path, 2)), LAMBDA url :
            IF url = None THEN Exchange(request, None, 404, "Service not found")
            ELSE IF backend = 0
            THEN Exchange(request, url, 500, "Error communicating with service: connect")
            ELSE Exchange(request, url, backend, "")))

\* The requests that reach the gateway
GatewayPaths ==
    {"/login-microservice/login",
     "/products-microservice/products",
     "/products-microservice/product/BKQT2OI",
     "/cart-microservice/shoppingCart/productsInCart",
     "/cart-microservice/shoppingCart/addProduct",
     "/cart-microservice/shoppingCart/removeProduct",
     "/cart-microservice/shoppingCart/clearCart",
     "/checkout-microservice/shoppingCart/checkout",
     "/orders/latest"}

AuthorizationHeaders ==
    {None, Some(""), Some("Bearer signed.alice"), Some("bearer signed.nosub"),
     Some("Bearer forged"), Some("Basic signed.alice"), Some("Bearer")}

GatewayRequests ==
    {[method |-> IF Contains(path, "checkout") THEN "POST" ELSE "GET",
      path |-> path, authorization |-> authorization] :
        path \in GatewayPaths, authorization \in AuthorizationHeaders}

BackendStatuses == {0, 200, 500}

\* The gateway handles one request.
Proxy ==
    /\ Len(gateway) < MaxExchanges
    /\ \E request \in GatewayRequests, backend \in BackendStatuses :
          gateway' = Append(gateway, proxy(request, backend))
    /\ UNCHANGED <<shopping_cart, product_inventory, orders, checkouts, cart_reply, stock>>
    /\ UNCHANGED verifier

InitGateway == VerifierIdle /\ ShopClosed

NextGateway == Proxy

SpecGateway == InitGateway /\ [][NextGateway]_vars

(***************************************************************************)
(* Properties                                                              *)
(***************************************************************************)
HasCritical(vs) == \E i \in 1..Len(vs) : vs[i].severity = "CRITICAL"

\* Deep analysis is disabled: not requested, or no API base URL configured.
DeepDisabled == ~args.deep_analysis \/ Get(ApiConfig(args).base_url, "") = ""

\* C1: when deep analysis is disabled (not requested, or no API base URL
\* configured) no network request is ever issued, and every Violation in
\* the accumulator has an empty source_documents list and an absent
\* deep_analysis, whatever source_doc_refs the requirements carry.
C1_DisabledStaysOffline ==
    DeepDisabled =>
        /\ net = <<>>
        /\ \A i \in 1..Len(violations) :
              /\ violations[i].source_documents = <<>>
              /\ violations[i].deep_analysis = None

\* A run that asked for deep analysis without a base URL has finished
\* verify() with an uncovered requirement that carries source references.
C1_Witness ==
    /\ pc = "report"
    /\ args.deep_analysis
    /\ DeepDisabled
    /\ \E i \in 1..Len(requirements) : Len(requirements[i].source_doc_refs) = 2
    /\ \E i \in 1..Len(violations) :
          violations[i].category = "COVERAGE" /\ violations[i].severity = "CRITICAL"

VerdictNames == <<"FAILED", "CONDITIONAL FAIL", "PASS WITH CONCERNS", "PASSED">>

HasVerdict(report, name) ==
    /\ report.verdict # None
    /\ StartsWithAt(report.verdict[1], 1, name \o " - ")

CountOf(vs, severity) == Cardinality({i \in 1..Len(vs) : vs[i].severity = severity})

\* C3: generate_report assigns exactly one verdict, which the numbers of
\* CRITICAL and HIGH violations in the accumulator determine: FAILED if
\* there is a CRITICAL one, otherwise CONDITIONAL FAIL if more than five
\* are HIGH, otherwise PASS WITH CONCERNS if one is HIGH, otherwise PASSED;
\* MEDIUM, LOW and INFO violations do not change it.
C3_VerdictByCounts ==
    (output # None /\ output[1].format = "text") =>
        LET critical == CountOf(violations, "CRITICAL")
            high == CountOf(violations, "HIGH")
            expected == IF critical > 0 THEN "FAILED"
                        ELSE IF high > 5 THEN "CONDITIONAL FAIL"
                        ELSE IF high > 0 THEN "PASS WITH CONCERNS"
                        ELSE "PASSED"
        IN  \A k \in 1..Len(VerdictNames) :
                HasVerdict(output[1], VerdictNames[k]) <=> VerdictNames[k] = expected

\* Six HIGH violations and some lesser ones, none CRITICAL: CONDITIONAL FAIL.
C3_Witness ==
    /\ pc = "done"
    /\ output # None
    /\ HasVerdict(output[1], "CONDITIONAL FAIL")
    /\ CountOf(violations, "HIGH") = 6
    /\ CountOf(violations, "LOW") = 2

\* C4: a run exits with code 1 if a Violation in the accumulator is
\* CRITICAL, or if a mandatory input path is missing or is not a regular
\* file; in every other case it exits with code 0.
C4_ExitCode ==
    pc = "done" =>
        LET paths == MandatoryPaths(args)
            bad_path == \E i \in 1..Len(paths) : fs[paths[i]].kind # "file"
        IN  exit_code = Some(IF HasCritical(violations) \/ bad_path THEN 1 ELSE 0)

\* The latest call of the client was fetch_document(doc_id).
Fetched(doc_id) == ret.op = "fetch_document" /\ ret.doc_ids = <<doc_id>>

\* C5 (state part): a fetch of a cached identifier returns the cached
\* document without a network request, and every cached entry is stored
\* under its own doc_id with fetched = true.
C5_CacheHit ==
    /\ \A d \in DOMAIN api_client.cache :
          api_client.cache[d].doc_id = d /\ api_client.cache[d].fetched
    /\ \A d \in DocIds :
          (api_client.enabled /\ Fetched(d) /\ d \in DOMAIN ret.cache_before) =>
              /\ ret.result = Some(ret.cache_before[d])
              /\ net = ret.net_before

\* C5 (step part): no step evicts or overwrites a cache entry.
C5_CacheKept ==
    \A d \in DOMAIN api_client.cache :
        d \in DOMAIN api_client'.cache /\ api_client'.cache[d] = api_client.cache[d]

\* C5: with retrieval enabled, once fetch(doc_id) has succeeded every later
\* fetch(doc_id) returns that same SourceDocument from the cache without a
\* network request; cache entries are never evicted or overwritten, and
\* each is stored under its own doc_id with fetched = true.
C5_CacheIsPermanent == []C5_CacheHit /\ [][C5_CacheKept]_vars

\* A cached document is returned although the service no longer has it.
C5_Witness ==
    \E d \in DocIds :
        /\ Fetched(d)
        /\ d \in DOMAIN ret.cache_before
        /\ ret.result = Some(ret.cache_before[d])
        /\ svc[d].kind # "ok"

\* A step in which fetch_document(doc_id) is called on an enabled client
\* that has not cached doc_id.
MissStep(doc_id) ==
    /\ ret' # ret
    /\ ret'.op = "fetch_document"
    /\ ret'.doc_ids = <<doc_id>>
    /\ api_client.enabled
    /\ doc_id \notin DOMAIN api_client.cache

WellFormed(doc_id) == HasScheme(api_client.base_url \o "/documents/" \o doc_id)

\* The fetch of doc_id fails: no request can be built, or the service
\* answers with an HTTP error (401, 404), a transport error or a payload
\* that cannot be decoded.
FetchFails(doc_id) == ~WellFormed(doc_id) \/ svc[doc_id].kind # "ok"

FailureIsAbsence(doc_id) ==
    FetchFails(doc_id) => (ret'.result = None /\ api_client'.cache = api_client.cache)

Succeeds(doc_id) ==
    \/ doc_id \in DOMAIN ret.cache_before
    \/ api_client.enabled /\ WellFormed(doc_id) /\ Respond(doc_id).kind = "ok"

\* C7 (state part): fetch_multiple returns exactly the documents of the
\* identifiers that could be fetched, in input order.
C7_PartialResults ==
    ret.op = "fetch_multiple" =>
        LET ids == SelectSeq(ret.doc_ids, Succeeds)
        IN  /\ \A i \in 1..Len(ids) : ids[i] \in DOMAIN api_client.cache
            /\ ret.result = [i \in 1..Len(ids) |-> api_client.cache[ids[i]]]

\* C7: a failed fetch affects only its own document: fetch_multiple still
\* fetches every remaining identifier and returns exactly the documents
\* that succeeded, in input order; and whatever fetches succeed or fail,
\* verify(), once started, finishes all checks and a report is produced.
C7_FailuresStayLocal ==
    /\ []C7_PartialResults
    /\ (pc = "check_requirement_coverage") ~> (pc = "exit" /\ output # None)

\* The first of two identifiers failed, the second was fetched, and the
\* report has been produced.
C7_Witness ==
    /\ ret.op = "fetch_multiple"
    /\ Len(ret.doc_ids) = 2
    /\ ~Succeeds(ret.doc_ids[1])
    /\ Len(ret.result) = 1
    /\ ret.result[1].doc_id = ret.doc_ids[2]
    /\ output # None

\* The order of verify()'s checks, by the category of their Violations
CategoryOrder ==
    <<"COVERAGE", "SCOPE_CREEP", "PRINCIPLE_VIOLATION", "AMBIGUITY", "CONTRADICTION",
      "COMPLETENESS", "VAGUENESS", "TESTABILITY", "CONSISTENCY">>

CategoryRank(category) == CHOOSE k \in 1..Len(CategoryOrder) : CategoryOrder[k] = category

\* The categories of the Violations a check creates
CategoriesOf(check) ==
    CASE check = "check_requirement_coverage" -> {"COVERAGE"}
      [] check = "check_orphaned_specifications" -> {"SCOPE_CREEP"}
      [] check = "check_principle_violations" -> {"PRINCIPLE_VIOLATION"}
      [] check = "check_ambiguity" -> {"AMBIGUITY"}
      [] check = "check_contradictions" -> {"CONTRADICTION"}
      [] check = "check_completeness" -> {"COMPLETENESS"}
      [] check = "check_scope_creep" -> {}
      [] check = "check_vagueness" -> {"VAGUENESS"}
      [] check = "check_testability" -> {"TESTABILITY"}
      [] check = "check_consistency" -> {"CONSISTENCY"}

\* The check that follows each check
FollowedBy(check) ==
    CASE check = "check_requirement_coverage" -> "check_orphaned_specifications"
      [] check = "check_orphaned_specifications" -> "check_principle_violations"
      [] check = "check_principle_violations" -> "check_ambiguity"
      [] check = "check_ambiguity" -> "check_contradictions"
      [] check = "check_contradictions" -> "check_completeness"
      [] check = "check_completeness" -> "check_scope_creep"
      [] check = "check_scope_creep" -> "check_vagueness"
      [] check = "check_vagueness" -> "check_testability"
      [] check = "check_testability" -> "check_consistency"
      [] check = "check_consistency" -> "report"

\* C8 (state part): the Violations are in the accumulator in the order of
\* the checks.
C8_InCheckOrder ==
    \A i, j \in 1..Len(violations) :
        i < j => CategoryRank(violations[i].category) <= CategoryRank(violations[j].category)

\* C8 (step part): a check is followed by the next one in the order; what
\* it leaves in the accumulator is what was there, then the Violations of
\* its own category; it leaves the three collections as they were.
C8_CheckAppends ==
    pc \in Range(CheckOrder) =>
        /\ pc' = FollowedBy(pc)
        /\ Len(violations') >= Len(violations)
        /\ SubSeq(violations', 1, Len(violations)) = violations
        /\ \A i \in (Len(violations) + 1)..Len(violations') :
              violations'[i].category \in CategoriesOf(pc)
        /\ UNCHANGED <<requirements, principles, specifications>>

\* C8: verify() runs the checks in the fixed order coverage, orphan and
\* scope creep, principle violation, ambiguity, contradiction,
\* completeness, vagueness, testability, consistency; the Violations are in
\* the accumulator in that order, each created by one check; no check
\* removes, reorders or modifies a Violation already in the accumulator, or
\* changes the requirement, principle or specification collections.
C8_FixedOrder == []C8_InCheckOrder /\ [][C8_CheckAppends]_vars

\* verify() has ended with a Violation from every check, two from the
\* coverage check.
C8_Witness ==
    /\ pc = "report"
    /\ Len(violations) = 10
    /\ \A k \in 1..Len(CategoryOrder) :
          \E i \in 1..Len(violations) : violations[i].category = CategoryOrder[k]

\* The coverage check has just run.
CoverageChecked == pc = "check_orphaned_specifications"

CoverageViolations(severity) ==
    SelectSeq(violations, LAMBDA v : v.category = "COVERAGE" /\ v.severity = severity)

\* The text of the requirement occurs verbatim in a specification item.
Verbatim(req) ==
    \E i \in 1..Len(specifications) : Contains(specifications[i].text, req.text)

\* The requirement is listed by a coverage Violation.
Reported(req) ==
    \E i \in 1..Len(violations) :
        /\ violations[i].category = "COVERAGE"
        /\ \/ req.id \in Range(violations[i].related_requirements)
           \/ RequirementEvidence(req) \in Range(violations[i].evidence)

\* coverage(T) as the check computes it
CoverageOf(req) == Coverage(Range(Keywords(req.text, 3)), JoinedText(specifications))

\* C9 as stated: for every Requirement whose text occurs verbatim in the
\* text of a SpecificationItem, the coverage is 1.0 and the requirement is
\* reported neither as uncovered nor as partially covered.
C9_VerbatimIsCovered ==
    CoverageChecked =>
        \A i \in 1..Len(requirements) :
            Verbatim(requirements[i]) =>
                /\ CoverageOf(requirements[i]).num = CoverageOf(requirements[i]).den
                /\ ~Reported(requirements[i])

\* C9, amended: for every Requirement whose text occurs verbatim in the
\* text of a SpecificationItem, the requirement is reported neither as
\* uncovered nor as partially covered, and its coverage is 1.0 if it has a
\* token longer than three characters (without one, no coverage is
\* computed for it).
C9_VerbatimIsNotReported ==
    CoverageChecked =>
        \A i \in 1..Len(requirements) :
            Verbatim(requirements[i]) =>
                /\ Keywords(requirements[i].text, 3) # <<>> =>
                      CoverageOf(requirements[i]).num = CoverageOf(requirements[i]).den
                /\ ~Reported(requirements[i])

\* A requirement of five key terms, one of them in upper case, occurs
\* verbatim in the specification, and another requirement is reported.
C9_Witness ==
    /\ CoverageChecked
    /\ violations # <<>>
    /\ \E i \in 1..Len(requirements) :
          /\ Verbatim(requirements[i])
          /\ Len(Keywords(requirements[i].text, 3)) = 5
          /\ requirements[i].text # LowerStr(requirements[i].text)

\* The tokens of the requirement that are longer than three characters,
\* and those of them found in the specification text
KeyTokens(req) == {w \in Range(Tokens(LowerStr(req.text))) : Len(w) > 3}
FoundTokens(req) ==
    {w \in KeyTokens(req) :
        \E i \in 1..Len(specifications) : Contains(LowerStr(specifications[i].text), w)}

\* The Violations of the coverage check are those of the two classes:
\* one CRITICAL Violation for the uncovered requirements if there are any,
\* naming them all and showing the first five; one HIGH Violation for the
\* partially covered ones if there are any, counting them all and showing
\* the first five.
CoverageReports(uncovered, partial) ==
    LET critical == CoverageViolations("CRITICAL")
        high == CoverageViolations("HIGH")
    IN  /\ Len(critical) = (IF uncovered # <<>> THEN 1 ELSE 0)
        /\ uncovered # <<>> =>
              /\ critical[1].related_requirements = [i \in 1..Len(uncovered) |-> uncovered[i].id]
              /\ Len(critical[1].evidence) <= 5
              /\ critical[1].evidence =
                     [i \in 1..Min(5, Len(uncovered)) |-> RequirementEvidence(uncovered[i])]
        /\ Len(high) = (IF partial # <<>> THEN 1 ELSE 0)
        /\ partial # <<>> =>
              /\ high[1].title = ToString(Len(partial)) \o " requirements have PARTIAL coverage"
              /\ high[1].evidence =
                     [i \in 1..Min(5, Len(partial)) |-> RequirementEvidence(partial[i])]

\* 0 < f < 0.5
IsPartialFraction(req) ==
    /\ FoundTokens(req) # {}
    /\ 2 * Cardinality(FoundTokens(req)) < Cardinality(KeyTokens(req))

\* C10 as stated: every Requirement is classified by the fraction f of its
\* tokens longer than three characters that are found in the specification
\* text (f = 0 for a requirement without such a token): f = 0 is uncovered
\* (one CRITICAL Violation, at most five evidence examples), 0 < f < 0.5 is
\* partially covered (one HIGH Violation), f >= 0.5 is in neither.
C10_ClassifiedByFraction ==
    CoverageChecked =>
        CoverageReports(SelectSeq(requirements, LAMBDA req : FoundTokens(req) = {}),
                        SelectSeq(requirements, IsPartialFraction))

\* C10, amended: every Requirement that has a token longer than three
\* characters is classified by the fraction f of those tokens found in the
\* specification text: f = 0 is uncovered (one CRITICAL Violation, at most
\* five evidence examples), 0 < f < 0.5 is partially covered (one HIGH
\* Violation), f >= 0.5 is in neither; a requirement without such a token
\* is in neither.
C10_ClassifiedByKeyFraction ==
    CoverageChecked =>
        CoverageReports(SelectSeq(requirements,
                                  LAMBDA req : KeyTokens(req) # {} /\ FoundTokens(req) = {}),
                        SelectSeq(requirements, IsPartialFraction))

\* The check has met a requirement with f exactly one half, an uncovered
\* one, a partially covered one and one without a key token.
C10_Witness ==
    /\ CoverageChecked
    /\ CoverageViolations("CRITICAL") # <<>>
    /\ CoverageViolations("HIGH") # <<>>
    /\ \E i \in 1..Len(requirements) :
          /\ KeyTokens(requirements[i]) # {}
          /\ 2 * Cardinality(FoundTokens(requirements[i])) = Cardinality(KeyTokens(requirements[i]))
    /\ \E i \in 1..Len(requirements) : KeyTokens(requirements[i]) = {}

\* The orphan check has just run.
OrphansChecked == pc = "check_principle_violations"

\* The tokens of the loaded requirements
RequirementTokens ==
    UNION {Range(Tokens(LowerStr(requirements[i].text))) : i \in 1..Len(requirements)}

\* The specification item is listed by the HIGH SCOPE_CREEP Violation.
ReportedOrphan(spec) ==
    \E i \in 1..Len(violations) :
        /\ violations[i].category = "SCOPE_CREEP"
        /\ violations[i].severity = "HIGH"
        /\ spec.line_number \in Range(violations[i].line_numbers)

\* No token of the item longer than three characters occurs anywhere in
\* the requirement text, inside longer words included.
NowhereInRequirements(spec) ==
    \A w \in KeyTokens(spec) : ~Contains(JoinedText(requirements), w)

ScenarioBText == extract_requirements(<<ScenarioBLine>>, "HUMAN_INPUT:" \o HumanPath)[1].text

\* A specification item contains the word, in any case.
Mentioned(word) ==
    \E j \in 1..Len(specifications) : Contains(LowerStr(specifications[j].text), word)

\* The requirement is listed by the CRITICAL Violation of the coverage check.
ListedUncovered(req) ==
    \E i \in 1..Len(violations) :
        /\ violations[i].category = "COVERAGE"
        /\ violations[i].severity = "CRITICAL"
        /\ req.id \in Range(violations[i].related_requirements)

\* C12 as stated (Scenario B): when the requirement line "Passwords MUST be
\* encrypted and never logged in plaintext." is loaded and no
\* SpecificationItem mentions "password" or "encrypt", the coverage of that
\* requirement is 0 and the CRITICAL Violation of uncovered requirements
\* lists it, whatever else the specification contains.
C12_ScenarioB ==
    CoverageChecked =>
        \A i \in 1..Len(requirements) :
            (/\ requirements[i].text = ScenarioBText
             /\ ~Mentioned("password")
             /\ ~Mentioned("encrypt")) =>
                /\ CoverageOf(requirements[i]).num = 0
                /\ ListedUncovered(requirements[i])

\* C12, amended: the Requirement stored for that line is the text after
\* MUST, with the key tokens encrypted, never, logged and plaintext; its
\* coverage is 0, and the CRITICAL Violation lists it, exactly when no
\* SpecificationItem contains one of those four tokens.
C12_ScenarioBKeyTokens ==
    CoverageChecked =>
        \A i \in 1..Len(requirements) :
            requirements[i].text = ScenarioBText =>
                /\ KeyTokens(requirements[i]) = {"encrypted", "never", "logged", "plaintext"}
                /\ (\A w \in KeyTokens(requirements[i]) : ~Mentioned(w)) <=>
                       CoverageOf(requirements[i]).num = 0
                /\ CoverageOf(requirements[i]).num = 0 <=> ListedUncovered(requirements[i])

\* The requirement of Scenario B is listed as uncovered by a run whose
\* specification has two items, one of them about passwords.
C12_Witness ==
    /\ CoverageChecked
    /\ Len(specifications) = 2
    /\ Mentioned("password")
    /\ \E i \in 1..Len(requirements) :
          requirements[i].text = ScenarioBText /\ ListedUncovered(requirements[i])

\* The principle check has just run.
PrinciplesChecked == pc = "check_ambiguity"

\* The Violation refers to the specification item: by its line number, or
\* by naming the line in its evidence.
RefersTo(v, spec) ==
    \/ spec.line_number \in Range(v.line_numbers)
    \/ \E k \in 1..Len(v.evidence) :
          Contains(LowerStr(v.evidence[k]), "line " \o ToString(spec.line_number))

\* C13 (Scenario C): given the mandatory principle "Sensitive data must
\* never appear in logs." and a specification item "All authentication
\* attempts are logged, including failed password fields for debugging.",
\* the principle check emits a CRITICAL PRINCIPLE_VIOLATION Violation that
\* refers to that specification line, whatever else the specification
\* contains.
C13_ScenarioC ==
    PrinciplesChecked =>
        \A p \in 1..Len(principles), s \in 1..Len(specifications) :
            (/\ principles[p].text = ScenarioCPrinciple
             /\ principles[p].mandatory
             /\ specifications[s].text = ScenarioCItem) =>
                \E i \in 1..Len(violations) :
                    /\ violations[i].category = "PRINCIPLE_VIOLATION"
                    /\ violations[i].severity = "CRITICAL"
                    /\ RefersTo(violations[i], specifications[s])

\* The contradiction check has just run.
ContradictionsChecked == pc = "check_completeness"

\* C14 (Scenario D): for the two specification items "The API returns
\* results within 2 seconds" and "The API does not guarantee any response
\* time bound" the contradiction check flags the pair and emits a CRITICAL
\* CONTRADICTION Violation.
C14_ScenarioD ==
    ContradictionsChecked =>
        \A s, t \in 1..Len(specifications) :
            (/\ specifications[s].text = ScenarioDReturns
             /\ specifications[t].text = ScenarioDBound) =>
                \E i \in 1..Len(violations) :
                    /\ violations[i].category = "CONTRADICTION"
                    /\ violations[i].severity = "CRITICAL"
                    /\ specifications[s].line_number \in Range(violations[i].line_numbers)
                    /\ specifications[t].line_number \in Range(violations[i].line_numbers)

\* The documents have been loaded.
Loaded == pc \notin {"start", "load"}

\* The identifier that the item type and the stored text give
IdOf(type, text) == type \o "_" \o Md5Hex8(text)

\* The extracted items, each with its type
Items ==
    {[type |-> "REQ", item |-> requirements[i]] : i \in 1..Len(requirements)}
    \cup {[type |-> "PRIN", item |-> principles[i]] : i \in 1..Len(principles)}
    \cup {[type |-> "SPEC", item |-> specifications[i]] : i \in 1..Len(specifications)}

\* C15: the identifier of an extracted item is a function of its item type
\* and its stored text only: the same text extracted twice (in the same
\* document, in another document or in another run, at any line number and
\* under any source label) has the same id.
C15_IdByTypeAndText ==
    Loaded =>
        /\ \A x \in Items : x.item.id = IdOf(x.type, x.item.text)
        /\ \A x, y \in Items :
              (x.type = y.type /\ x.item.text = y.item.text) => x.item.id = y.item.id

\* The same requirement text has been extracted from two documents, at two
\* line numbers and with different source references, and the same
\* specification text from a bullet and from a numbered line.
C15_Witness ==
    /\ Loaded
    /\ \E i, j \in 1..Len(requirements) :
          /\ requirements[i].text = requirements[j].text
          /\ requirements[i].source # requirements[j].source
          /\ requirements[i].line_number # requirements[j].line_number
          /\ requirements[i].source_doc_refs # requirements[j].source_doc_refs
          /\ requirements[i].id = requirements[j].id
    /\ \E i, j \in 1..Len(specifications) :
          /\ i # j
          /\ specifications[i].text = specifications[j].text
          /\ specifications[i].id = specifications[j].id

\* The Violations of one severity, in the order of the accumulator
OfSeverity(vs, severity) == SelectSeq(vs, LAMBDA v : v.severity = severity)

\* The human-readable report has been written.
TextReported == output # None /\ output[1].format = "text"

\* C16: the human-readable report lists the Violations in the order of
\* severity CRITICAL, HIGH, MEDIUM, LOW, INFO; the listing is a permutation
\* of the accumulator, and Violations of equal severity keep the order in
\* which the checks appended them: the listing is the CRITICAL Violations
\* of the accumulator in their order, then the HIGH ones, and so on.
C16_ListedBySeverity ==
    TextReported =>
        /\ output[1].listing =
               OfSeverity(violations, "CRITICAL") \o OfSeverity(violations, "HIGH")
               \o OfSeverity(violations, "MEDIUM") \o OfSeverity(violations, "LOW")
               \o OfSeverity(violations, "INFO")
        /\ \A i, j \in 1..Len(output[1].listing) :
              i < j => severity_order(output[1].listing[i].severity)
                           <= severity_order(output[1].listing[j].severity)

\* A report of ten Violations of four severities, several of them of equal
\* severity, whose listing is not in the order of the accumulator.
C16_Witness ==
    /\ TextReported
    /\ Len(violations) = 10
    /\ output[1].listing # violations
    /\ Cardinality({violations[i].severity : i \in 1..Len(violations)}) = 4
    /\ \E i, j \in 1..Len(violations) :
          /\ i < j
          /\ violations[i].severity = violations[j].severity
          /\ violations[i] # violations[j]

\* Every entry that productsInCart returns has a quantity > 0.
C18_QuantitiesPositive ==
    \A userid \in ShopUsers :
        LET products == get_products_in_cart(shopping_cart, userid)
        IN  \A asin \in DOMAIN products : products[asin] \in Nat \ {0}

\* The latest call was removeProduct: it succeeded; a product that was in
\* the user's cart once is no longer an entry, and if the product was not
\* in the user's cart the table is as it was.
C18_RemoveIsIdempotent ==
    (cart_reply # <<>> /\ cart_reply.op = "removeProduct") =>
        LET products == get_products_in_cart(cart_reply.before, cart_reply.userid)
        IN  /\ cart_reply.status_code = 200
            /\ (cart_reply.asin \in DOMAIN products /\ products[cart_reply.asin] = 1) =>
                   cart_reply.asin
                       \notin DOMAIN get_products_in_cart(shopping_cart, cart_reply.userid)
            /\ cart_reply.asin \notin DOMAIN products => shopping_cart = cart_reply.before

\* C18: after any sequence of addProduct, removeProduct and clearCart calls
\* for any users, every entry returned by productsInCart has an integer
\* quantity > 0: removing a product whose quantity is 1 deletes the entry
\* instead of storing 0, and removing a product that is not in the cart
\* changes nothing and still succeeds.
C18_CartEntriesPositive == C18_QuantitiesPositive /\ C18_RemoveIsIdempotent

\* The responses that the checkout requests have sent
Responses == {checkouts[r].response[1] : r \in {q \in DOMAIN checkouts : checkouts[q].response # None}}

DistinctDocuments(docs) ==
    \A i, j \in 1..Len(docs) : docs[i].doc_id = docs[j].doc_id => i = j

\* C19: when deep analysis enriches a Violation, each referenced source
\* document is attached at most once: source_documents never holds two
\* entries with the same doc_id, even when several candidate requirements
\* reference the same document or one requirement line names it twice.
C19_DocumentsAttachedOnce ==
    \A i \in 1..Len(violations) : DistinctDocuments(violations[i].source_documents)

\* The violations of the checks that collect the references into a set
C19_SetCollectedOnce ==
    \A i \in 1..Len(violations) :
        violations[i].category \in {"PRINCIPLE_VIOLATION", "AMBIGUITY"}
            => DistinctDocuments(violations[i].source_documents)

\* The document identifiers that the requirements reference
ReferencedBy(reqs) == UNION {Range(reqs[i].source_doc_refs) : i \in 1..Len(reqs)}

\* None of the documents can be fetched: the request cannot be built or
\* the service answers none of them with a document.
Unfetchable(doc_ids) ==
    \/ ~HasScheme(Get(ApiConfig(args).base_url, ""))
    \/ \A d \in doc_ids : Respond(d).kind # "ok"

\* The requirements whose references the deep analysis of a violation uses
Candidates(v) ==
    CASE v.category = "COVERAGE" /\ v.severity = "CRITICAL" ->
             SelectSeq(requirements,
                       LAMBDA r : r.id \in Range(Take(v.related_requirements, 3)))
      [] v.category = "PRINCIPLE_VIOLATION" ->
             LET found == FlatMap(principles,
                                  LAMBDA p : PrincipleFindings(p, specifications))
             IN  IF found[1].spec = None THEN <<>>
                 ELSE Take(SelectSeq(requirements,
                                     LAMBDA r : r.tags \cap found[1].spec[1].tags # {}), 3)
      [] v.category = "AMBIGUITY" ->
             LET spec == CHOOSE s \in Range(specifications) :
                             s.line_number = v.line_numbers[1]
                 spec_keywords == Range(Keywords(spec.text, 3))
             IN  SelectSeq(requirements, LAMBDA r :
                     Cardinality(spec_keywords \cap Range(Tokens(LowerStr(r.text)))) >= 2)
      [] OTHER -> <<>>

\* The violation says that no source material was found.
Summarised(v) ==
    /\ v.source_documents = <<>>
    /\ v.deep_analysis \notin {None, Some("")}

NothingFetched(v) ==
    /\ ~DeepDisabled
    /\ ReferencedBy(Candidates(v)) # {}
    /\ Unfetchable(ReferencedBy(Candidates(v)))

\* C20: with deep analysis enabled, whenever the candidate requirements of
\* a coverage, principle-violation or ambiguity Violation carry
\* source_doc_refs but none of those documents can be fetched, the
\* Violation keeps an empty source_documents list and its deep_analysis is
\* set to a summary (it is never left absent).
C20_UnfetchedIsSummarised ==
    \A i \in 1..Len(violations) :
        NothingFetched(violations[i]) => Summarised(violations[i])

\* The same for the coverage and the principle-violation checks alone
C20_CoverageAndPrinciplesSummarised ==
    \A i \in 1..Len(violations) :
        /\ violations[i].category \in {"COVERAGE", "PRINCIPLE_VIOLATION"}
        /\ NothingFetched(violations[i])
        => Summarised(violations[i])

\* An ambiguity violation whose documents could not be fetched
C20_AmbiguityUnfetched ==
    \E i \in 1..Len(violations) :
        /\ violations[i].category = "AMBIGUITY"
        /\ NothingFetched(violations[i])
        /\ violations[i].deep_analysis = None

\* C21: every extracted Principle whose text contains one of the
\* prohibition phrases "must not", "shall not", "cannot", "prohibited" has
\* mandatory = true, so the principle-violation check examines it.
C21_ProhibitionIsMandatory ==
    \A i \in 1..Len(principles) :
        ContainsAny(LowerStr(principles[i].text), ProhibitionPhrases)
            => principles[i].mandatory

\* The SpecificationItem contains at least one key term of the principle.
HoldsKeyTerm(spec, principle) ==
    \E term \in Range(_extract_key_terms(principle.text)) :
        Contains(LowerStr(spec.text), term)

IsProhibition(principle) ==
    principle.mandatory /\ ContainsAny(LowerStr(principle.text), ProhibitionPhrases)

IsObligationOnly(principle) ==
    /\ principle.mandatory
    /\ ~ContainsAny(LowerStr(principle.text), ProhibitionPhrases)
    /\ ContainsAny(LowerStr(principle.text), ObligationPhrases)

\* The number of instances: the principle/item pairs of the prohibitions
\* and the obligations that no item addresses
ExpectedInstances ==
    Cardinality({<<i, j>> \in (1..Len(principles)) \X (1..Len(specifications)) :
                    IsProhibition(principles[i])
                    /\ HoldsKeyTerm(specifications[j], principles[i])})
    + Cardinality({i \in 1..Len(principles) :
                    /\ IsObligationOnly(principles[i])
                    /\ \A j \in 1..Len(specifications) :
                           ~HoldsKeyTerm(specifications[j], principles[i])})

PrincipleViolations == SelectSeq(violations, LAMBDA v : v.category = "PRINCIPLE_VIOLATION")

\* C22: a mandatory principle with a prohibition phrase yields exactly one
\* violation instance per SpecificationItem that contains at least one of
\* its key terms, however many terms match; a mandatory principle with
\* only an obligation phrase yields one instance if and only if none of
\* its key terms occurs in the specification text; all instances are
\* collapsed into a single CRITICAL Violation that reports their number.
C22_InstancePerItem ==
    PrinciplesChecked =>
        IF ExpectedInstances = 0 THEN PrincipleViolations = <<>>
        ELSE /\ Len(PrincipleViolations) = 1
             /\ PrincipleViolations[1].severity = "CRITICAL"
             /\ PrincipleViolations[1].title
                    = ToString(ExpectedInstances) \o " principle violations detected"

\* The instances are collapsed into at most one CRITICAL Violation, which
\* exists exactly when an instance is expected.
C22_SingleViolation ==
    PrinciplesChecked =>
        /\ Len(PrincipleViolations) = IF ExpectedInstances = 0 THEN 0 ELSE 1
        /\ \A i \in 1..Len(PrincipleViolations) : PrincipleViolations[i].severity = "CRITICAL"

\* The text that the first pattern matching the line captures, trimmed
FirstCapture(caps) ==
    LET hits == {k \in 1..Len(caps) : caps[k] # None}
        first == CHOOSE k \in hits : \A j \in hits : k <= j
    IN  IF hits = {} THEN None
        ELSE Some(RStrip(Strip(caps[first][1]), TrailingPunctuation))

\* The lines of the file that a requirement was read from
LinesOf(req) ==
    IF StartsWithAt(req.source, 1, "HUMAN_INPUT:") THEN fs[HumanPath].lines
    ELSE fs[ReqsPath].lines

\* No two items of the list come from the same line of the same file.
OnePerLine(items, file(_)) ==
    \A i, j \in 1..Len(items) :
        file(items[i]) = file(items[j]) /\ items[i].line_number = items[j].line_number
            => i = j

RequirementsByFirstPattern ==
    /\ OnePerLine(requirements, LAMBDA r : r.source)
    /\ \A i \in 1..Len(requirements) :
          LET line == Strip(LinesOf(requirements[i])[requirements[i].line_number])
              first == FirstCapture(req_patterns(line))
          IN  /\ Len(line) >= 10
              /\ first # None
              /\ requirements[i].text = Strip(RemoveRefs(first[1]))

SpecificationsByFirstPattern ==
    /\ OnePerLine(specifications, LAMBDA s : "")
    /\ \A i \in 1..Len(specifications) :
          LET line == Strip(fs[SpecificationPath].lines[specifications[i].line_number])
              first == FirstCapture(spec_patterns(line))
          IN  /\ Len(line) >= 10
              /\ first = Some(specifications[i].text)

PrinciplesByFirstPattern ==
    /\ OnePerLine(principles, LAMBDA p : "")
    /\ \A i \in 1..Len(principles) :
          LET line == Strip(fs[ConstitutionPath].lines[principles[i].line_number])
              first == FirstCapture(principle_patterns(line))
          IN  /\ Len(line) >= 10
              /\ first = Some(principles[i].text)

\* C23: in each of the three extractors a line yields at most one item,
\* and that item is produced by the first pattern, in list order, that
\* matches the line: no later pattern is tried once one has matched; lines
\* shorter than 10 characters after trimming yield no item.
C23_FirstPatternWins ==
    Loaded =>
        /\ RequirementsByFirstPattern
        /\ SpecificationsByFirstPattern
        /\ PrinciplesByFirstPattern

\* The same for the requirements and the specification items alone
C23_FirstPatternWinsOutsidePrinciples ==
    Loaded => RequirementsByFirstPattern /\ SpecificationsByFirstPattern

\* The text holds no source marker and does not end with punctuation.
CleanText(text) ==
    /\ extract_source_refs(text) = <<>>
    /\ text # "" => Ch(text, Len(text)) \notin {".", ";", ","}

\* The identifiers of all markers of the requirement's line are recorded.
RefsRecorded(req) ==
    req.source_doc_refs = extract_source_refs(Strip(LinesOf(req)[req.line_number]))

\* C24: the stored text of every extracted Requirement contains no
\* [SRC:id], [SOURCE:id] or [DOC:id] marker and does not end with '.', ';'
\* or ',', wherever in the line the markers stood; the identifiers of all
\* markers found in the line are recorded in source_doc_refs.
C24_StoredTextIsClean ==
    \A i \in 1..Len(requirements) :
        CleanText(requirements[i].text) /\ RefsRecorded(requirements[i])

\* The identifiers of the markers are recorded, whatever the text keeps
C24_RefsRecorded ==
    \A i \in 1..Len(requirements) : RefsRecorded(requirements[i])

\* The key terms that two specification items share
SharedTerms(i, j) ==
    Range(_extract_key_terms(specifications[i].text))
        \cap Range(_extract_key_terms(specifications[j].text))

\* Exactly one of the two items contains a negation marker.
OneNegated(i, j) ==
    ContainsAny(LowerStr(specifications[i].text), negations)
        # ContainsAny(LowerStr(specifications[j].text), negations)

\* The unordered pairs that are to be flagged, the earlier item first
FlaggedPairs ==
    {<<i, j>> \in (1..Len(specifications)) \X (1..Len(specifications)) :
        i < j /\ Cardinality(SharedTerms(i, j)) >= 3 /\ OneNegated(i, j)}

ContradictionViolations == SelectSeq(violations, LAMBDA v : v.category = "CONTRADICTION")

\* The pairs of line numbers that a CONTRADICTION violation lists
ListedPairs(v) ==
    {<<v.line_numbers[2 * k - 1], v.line_numbers[2 * k]>> : k \in 1..(Len(v.line_numbers) \div 2)}

\* C25: the contradiction check evaluates every unordered pair of distinct
\* SpecificationItems exactly once and flags a pair if and only if the two
\* items share at least 3 key terms and exactly one of them contains a
\* negation marker; pairs sharing exactly 2 key terms are never flagged,
\* and the outcome does not depend on the order of the two items.
C25_PairsFlagged ==
    ContradictionsChecked =>
        /\ \A i, j \in 1..Len(specifications) :
              _are_contradictory(specifications[i].text, specifications[j].text)
                  = _are_contradictory(specifications[j].text, specifications[i].text)
        /\ IF FlaggedPairs = {} THEN ContradictionViolations = <<>>
           ELSE /\ Len(ContradictionViolations) = 1
                /\ LET v == ContradictionViolations[1]
                   IN  /\ v.title = ToString(Cardinality(FlaggedPairs))
                                        \o " potential contradictions found"
                       /\ Len(v.line_numbers) = 2 * Cardinality(FlaggedPairs)
                       /\ ListedPairs(v) =
                              {<<specifications[p[1]].line_number,
                                 specifications[p[2]].line_number>> : p \in FlaggedPairs}

\* A run in which a pair is flagged while another pair, which shares
\* exactly two key terms and has one negated item, is not.
C25_Witness ==
    /\ ContradictionsChecked
    /\ FlaggedPairs # {}
    /\ ContradictionViolations # <<>>
    /\ \E i, j \in 1..Len(specifications) :
          i < j /\ Cardinality(SharedTerms(i, j)) = 2 /\ OneNegated(i, j)

\* The actions that change a cart or place an order
CriticalPaths ==
    {"/cart-microservice/shoppingCart/addProduct",
     "/cart-microservice/shoppingCart/removeProduct",
     "/cart-microservice/shoppingCart/clearCart",
     "/checkout-microservice/shoppingCart/checkout"}

Rejected(exchange) == exchange.status_code = 401 /\ exchange.url = None

\* C26: the gateway rejects with 401, and never forwards to a backend
\* service, any request that carries no Authorization header and targets
\* a critical action: checkout or a cart modification (addProduct,
\* removeProduct, clearCart).
C26_CriticalNeedsToken ==
    \A i \in 1..Len(gateway) :
        gateway[i].authorization = None /\ gateway[i].path \in CriticalPaths
            => Rejected(gateway[i])

\* The same for checkout and addProduct alone
C26_CheckoutAndAddNeedToken ==
    \A i \in 1..Len(gateway) :
        /\ gateway[i].authorization = None
        /\ gateway[i].path \in {"/cart-microservice/shoppingCart/addProduct",
                                "/checkout-microservice/shoppingCart/checkout"}
        => Rejected(gateway[i])

\* C27: after a single verify() on a freshly constructed verifier the
\* accumulator holds at most 10 Violations and at most 3 of severity HIGH
\* (partial COVERAGE, SCOPE_CREEP, COMPLETENESS), so the verdict is FAILED,
\* PASS WITH CONCERNS or PASSED and CONDITIONAL FAIL is never produced.
C27_AtMostTenViolations ==
    /\ Len(violations) <= 10
    /\ CountOf(violations, "HIGH") <= 3
    /\ \A i, j \in 1..Len(violations) :
          /\ violations[i].severity = "HIGH"
                => violations[i].category \in {"COVERAGE", "SCOPE_CREEP", "COMPLETENESS"}
          /\ violations[i].severity = "HIGH" /\ violations[j].severity = "HIGH"
             /\ violations[i].category = violations[j].category
                => i = j
    /\ (output # None /\ output[1].format = "text") =>
          /\ ~HasVerdict(output[1], "CONDITIONAL FAIL")
          /\ \E name \in {"FAILED", "PASS WITH CONCERNS", "PASSED"} :
                HasVerdict(output[1], name)

\* A run that ends with ten Violations, three of them HIGH
C27_Witness ==
    /\ pc = "done"
    /\ output # None /\ output[1].format = "text"
    /\ Len(violations) = 10
    /\ CountOf(violations, "HIGH") = 3
    /\ HasVerdict(output[1], "FAILED")

\* The violation carries source documents or an analysis.
Enriched(v) == v.source_documents # <<>> \/ v.deep_analysis # None

\* The violations that deep analysis can enrich
Enrichable(v) ==
    \/ v.category = "COVERAGE" /\ v.severity = "CRITICAL"
    \/ v.category \in {"PRINCIPLE_VIOLATION", "AMBIGUITY"}

\* A step of a run leaves the violations of the accumulator as they are.
AppendedAsIs ==
    pc' # "start" =>
        /\ Len(violations') >= Len(violations)
        /\ \A i \in 1..Len(violations) : violations'[i] = violations[i]

\* C28: even with deep analysis enabled, only the CRITICAL COVERAGE, the
\* PRINCIPLE_VIOLATION and the AMBIGUITY Violation can receive
\* source_documents or a deep_analysis, and they receive them before being
\* appended; the partial-COVERAGE, SCOPE_CREEP, CONTRADICTION,
\* COMPLETENESS, VAGUENESS, TESTABILITY and CONSISTENCY Violations always
\* have empty source_documents and absent deep_analysis.
C28_OnlyThreeEnriched ==
    /\ [](\A i \in 1..Len(violations) : Enriched(violations[i]) => Enrichable(violations[i]))
    /\ [][AppendedAsIs]_vars

\* A run with deep analysis in which a violation has been enriched and
\* violations of the other checks have been appended after it
C28_Witness ==
    /\ pc = "done"
    /\ enable_deep_analysis
    /\ \E i, j \in 1..Len(violations) :
          /\ i < j
          /\ violations[i].source_documents # <<>>
          /\ violations[i].deep_analysis # None
          /\ violations[j].category = "COVERAGE" /\ violations[j].severity = "HIGH"
    /\ \E i \in 1..Len(violations) : ~Enrichable(violations[i]) /\ i > 2

\* The request has been answered with the status.
Answered(r, status) ==
    checkouts[r].response # None /\ checkouts[r].response[1].status = status

\* No other request has been received.
Alone(r) == \A q \in DOMAIN checkouts : q # r => checkouts[q].pc = "idle"

\* C29: checkout is all-or-nothing: whenever a checkout returns FAILURE,
\* including an out-of-stock item found after earlier items were deducted
\* and a failure of the final clear-cart call, no order has been persisted
\* and every inventory quantity equals its value before the call.
C29_FailureLeavesNoTrace ==
    \A r \in DOMAIN checkouts :
        Answered(r, "FAILURE") /\ Alone(r) => orders = {} /\ product_inventory = stock

\* The same for the failures before the commit: the response is not that
\* of the handler after an order was committed.
C29_FailureBeforeCommit ==
    \A r \in DOMAIN checkouts :
        Answered(r, "FAILURE") /\ Alone(r) /\ checkouts[r].order_id = ""
            => orders = {} /\ product_inventory = stock

\* A request failed on an out-of-stock item after an earlier item of its
\* cart had been deducted in the session.
C29_OutOfStockAfterDeduction ==
    \E r \in DOMAIN checkouts :
        /\ Answered(r, "FAILURE") /\ Alone(r)
        /\ StartsWithAt(checkouts[r].response[1].orderDetails, 1, "Product is Out of Stock")
        /\ Len(checkouts[r].items) < Cardinality(DOMAIN checkouts[r].products_in_cart)

\* The quantity of the product in the carts of the requests that were
\* answered with SUCCESS
RECURSIVE SoldUpTo(_, _)
SoldUpTo(asin, r) ==
    IF r = 0 THEN 0
    ELSE SoldUpTo(asin, r - 1)
         + (IF Answered(r, "SUCCESS") /\ asin \in DOMAIN checkouts[r].products_in_cart
            THEN checkouts[r].products_in_cart[asin] ELSE 0)

Sold(asin) == SoldUpTo(asin, Len(checkouts))

\* C30: under any interleaving of concurrent checkout requests whose carts
\* contain the same product, the committed inventory quantity of that
\* product never becomes negative and the total quantity sold by SUCCESS
\* checkouts never exceeds the initial inventory.
C30_NeverOversold ==
    \A asin \in DOMAIN product_inventory :
        product_inventory[asin] >= 0 /\ Sold(asin) <= stock[asin]

\* The committed quantities alone
C30_NeverNegative ==
    \A asin \in DOMAIN product_inventory : product_inventory[asin] >= 0

=============================================================================
